---- MODULE Spec2Model ----
(***************************************************************************)
(* A state-machine model of the SPECTRE EVM core: the transaction driver   *)
(* state_transition of the three forks (Frontier F0, Homestead F1,         *)
(* Shanghai F2) and the byte-code interpreter it invokes, with its nested  *)
(* CALL / CREATE frames.                                                   *)
(*                                                                         *)
(* Representation choices.                                                 *)
(*  - A byte string is a record [len, nz]: its length and the map from the *)
(*    offsets of its non-zero bytes to their values.  It is a canonical    *)
(*    form of Python's bytes / bytearray, so equality is byte equality.    *)
(*  - An address is a natural number (the 20-byte big-endian quantity it   *)
(*    encodes).  Keccak-256 over RLP([sender, nonce]) is modelled as a     *)
(*    collision-free injection into addresses no account uses initially.   *)
(*  - The recursion of Interpreter.execute is an explicit stack of frames; *)
(*    one step executes one opcode of the innermost frame, and the return  *)
(*    of a frame runs the rest of its caller's handler in the same step.   *)
(*  - State objects live in a heap of references, so that aliasing between *)
(*    the caller's State and the driver's working copy is expressible.     *)
(***************************************************************************)
EXTENDS Integers, Sequences, FiniteSets, TLC

VARIABLES
    fork,        \* which fork's state_transition / interpreter runs
    heap,        \* State objects: reference -> accounts dict
    inputRef,    \* the State object the caller passed to state_transition
    stateRef,    \* the State the driver and the interpreter mutate
    tx,          \* the Transaction
    env,         \* the Environment (coinbase)
    phase,       \* position in state_transition: "start", "exec", "done"
    frames,      \* active interpreter frames, outermost first
    return_data, \* Interpreter.return_data (one per Interpreter object)
    result,      \* the ExecutionResult state_transition returns
    lastFrame,   \* history: the frame that returned most recently
    lastCall,    \* history: the CALL-family / CREATE opcode that completed most recently
    txInfo,      \* history: what the driver computed for this transaction
    run,         \* 1 for the first invocation, 2 for a repeated one
    firstOut,    \* the (State, ExecutionResult) the first invocation returned
    obj          \* a Stack or a Memory object that is driven directly

vars == <<fork, heap, inputRef, stateRef, tx, env, phase, frames, return_data, result,
          lastFrame, lastCall, txInfo, run, firstOut, obj>>

-----------------------------------------------------------------------------
(* Opcodes (ethereum/common/types.py, class Opcode) *)
STOP == 0
ADD == 1
POP == 80
MLOAD == 81
MSTORE == 82
MSTORE8 == 83
SLOAD == 84
SSTORE == 85
JUMP == 86
JUMPI == 87
PC == 88
MSIZE == 89
GAS == 90
JUMPDEST == 91
PUSH0 == 95
PUSH1 == 96
PUSH2 == 97
PUSH3 == 98
PUSH32 == 127
DUP1 == 128
DUP16 == 143
SWAP1 == 144
SWAP16 == 159
LOG0 == 160
LOG4 == 164
BALANCE == 49
RETURNDATASIZE == 61
EXTCODEHASH == 63
RETURNDATACOPY == 62
CREATE == 240
CALL == 241
CALLCODE == 242
RETURN == 243
DELEGATECALL == 244
CREATE2 == 245
STATICCALL == 250
REVERT == 253
INVALID == 254
SELFDESTRUCT == 255

(* The byte values class Opcode defines; every other byte is an unknown opcode. *)
DefinedOpcodes ==
    (0..11) \cup (16..29) \cup {32} \cup (48..63) \cup (64..72) \cup (80..91)
    \cup (95..164) \cup {240, 241, 242, 243, 244, 245, 250, 253, 254, 255}

(* Gas schedule (ethereum/frontier/vm/gas.py, class GasSchedule) *)
G_BASE == 2
G_BALANCE == 20
G_VERYLOW == 3
G_MID == 8
G_HIGH == 10
G_SLOAD == 50
G_SSET == 20000
G_SRESET == 5000
G_CREATE == 32000
G_CODEDEPOSIT == 200
G_CALL == 40
G_CALLVALUE == 9000
G_CALLSTIPEND == 2300
G_NEWACCOUNT == 25000
G_JUMPDEST == 1
G_COPY == 3
G_LOG == 375
G_LOGDATA == 8
G_LOGTOPIC == 375
G_SELFDESTRUCT == 0
G_TRANSACTION == 21000
G_TXCREATE == 53000
G_TXDATAZERO == 4
G_TXDATANONZERO == 68
G_PUSH0 == 2
INITCODE_WORD_COST == 2
MAX_INITCODE_SIZE == 49152
MAX_CODE_SIZE == 24576
MAX_CALL_DEPTH == 1024
MAX_DEPTH == 1024

(* u256: the stack word; the model's words are 30 bits wide *)
WordModulus == 2 ^ 30
u256(value) == value % WordModulus

(* An address is 20 of the word's 32 bytes; in the model 20 of its 30 bits *)
AddressModulus == 2 ^ 20

-----------------------------------------------------------------------------
(* Byte strings *)

Min(a, b) == IF a < b THEN a ELSE b
Max(a, b) == IF a > b THEN a ELSE b

EmptyBytes == [len |-> 0, nz |-> <<>>]

(* bytes([...]) from a sequence of byte values *)
BytesOf(s) ==
    [len |-> Len(s),
     nz  |-> [i \in {j \in 0..(Len(s) - 1) : s[j + 1] # 0} |-> s[i + 1]]]

ByteAt(b, i) == IF i \in DOMAIN b.nz THEN b.nz[i] ELSE 0

(* b[off : off + size], Python slice semantics (clipped at the end of b) *)
Slice(b, off, size) ==
    LET lo == Min(off, b.len)
        hi == Min(off + size, b.len)
    IN [len |-> hi - lo,
        nz  |-> [i \in {j - lo : j \in {k \in DOMAIN b.nz : k >= lo /\ k < hi}}
                    |-> b.nz[i + lo]]]

(* b + b"\x00" * n *)
ZeroExtend(b, n) == [len |-> b.len + n, nz |-> b.nz]

(* int.from_bytes(b, "big") *)
RECURSIVE BigEndian(_, _)
BigEndian(b, n) ==
    IF n = 0 THEN 0 ELSE 256 * BigEndian(b, n - 1) + ByteAt(b, n - 1)
int_from_bytes(b) ==
    IF b.nz = <<>> THEN 0 ELSE BigEndian(b, b.len)

(* value.to_bytes(32, "big") for a word below 2^32 *)
WordBytes(v) ==
    LET digit(k) == (v \div (256 ^ k)) % 256
    IN [len |-> 32,
        nz  |-> [i \in {31 - k : k \in {j \in 0..3 : digit(j) # 0}} |-> digit(31 - i)]]

-----------------------------------------------------------------------------
(* Memory (ethereum/frontier/vm/memory.py); a Memory is its bytearray _data *)

word_size(size) == (size + 31) \div 32

memory_cost(words) == 3 * words + (words * words) \div 512

expansion_cost(mem, offset, size) ==
    IF size = 0 THEN 0
    ELSE LET current_words == word_size(mem.len)
             required_words == word_size(offset + size)
         IN IF required_words <= current_words THEN 0
            ELSE memory_cost(required_words) - memory_cost(current_words)

(* An expansion to the last byte accessed, not to a whole word *)
mem_expand_exact(mem, offset, size) ==
    IF size = 0 \/ offset + size <= mem.len THEN mem
    ELSE [len |-> offset + size, nz |-> mem.nz]

mem_expand(mem, offset, size) ==
    IF size = 0 THEN mem
    ELSE LET current_words == word_size(mem.len)
             required_words == word_size(offset + size)
         IN IF required_words > current_words
            THEN [len |-> required_words * 32, nz |-> mem.nz]
            ELSE mem

(* Memory.load returns the bytes read; the memory is expanded first *)
mem_load(mem, offset, size) ==
    IF size = 0 THEN EmptyBytes ELSE Slice(mem_expand(mem, offset, size), offset, size)

(* Memory.store: self._data[offset : offset + len(data)] = data *)
mem_store(mem, offset, data) ==
    IF data.len = 0 THEN mem
    ELSE LET m == mem_expand(mem, offset, data.len)
             keep == {k \in DOMAIN m.nz : k < offset \/ k >= offset + data.len}
             put == {k + offset : k \in DOMAIN data.nz}
         IN [len |-> m.len,
             nz  |-> [i \in keep \cup put |->
                        IF i \in put THEN data.nz[i - offset] ELSE m.nz[i]]]

(* A store_word that takes the value as it comes *)
store_word_unmasked(mem, offset, value) == mem_store(mem, offset, WordBytes(value))

(* Memory.store_word: (value & ((1 << 256) - 1)).to_bytes(32, "big") *)
store_word(mem, offset, value) == mem_store(mem, offset, WordBytes(u256(value)))

store_byte(mem, offset, value) ==
    LET m == mem_expand(mem, offset, 1)
        b == value % 256
        keep == DOMAIN m.nz \ {offset}
    IN [len |-> m.len,
        nz  |-> [i \in keep \cup (IF b = 0 THEN {} ELSE {offset}) |->
                    IF i = offset THEN b ELSE m.nz[i]]]

load_word(mem, offset) == int_from_bytes(mem_load(mem, offset, 32))

(* Memory.copy_within: both regions are expanded, then the source bytes are
   copied through a temporary *)
copy_within(mem, dest_offset, src_offset, size) ==
    IF size = 0 THEN mem
    ELSE LET m == mem_expand(mem_expand(mem, src_offset, size), dest_offset, size)
         IN mem_store(m, dest_offset, Slice(m, src_offset, size))

-----------------------------------------------------------------------------
(* State (ethereum/common/types.py); a State is its accounts dict *)

EmptyAccount == [nonce |-> 0, balance |-> 0, code |-> EmptyBytes, storage |-> <<>>]

get_account(st, a) == IF a \in DOMAIN st THEN st[a] ELSE EmptyAccount

set_account(st, a, acct) ==
    [x \in DOMAIN st \cup {a} |-> IF x = a THEN acct ELSE st[x]]

get_balance(st, a) == get_account(st, a).balance
set_balance(st, a, v) == set_account(st, a, [get_account(st, a) EXCEPT !.balance = v])

get_code(st, a) == get_account(st, a).code
set_code(st, a, c) == set_account(st, a, [get_account(st, a) EXCEPT !.code = c])

get_storage(st, a, key) ==
    LET s == get_account(st, a).storage
    IN IF key \in DOMAIN s THEN s[key] ELSE 0

(* A set_storage that keeps a slot written with 0 *)
set_storage_keeps_zero(st, a, key, value) ==
    LET s == get_account(st, a).storage
        new_storage == [k \in DOMAIN s \cup {key} |-> IF k = key THEN value ELSE s[k]]
    IN set_account(st, a, [get_account(st, a) EXCEPT !.storage = new_storage])

set_storage(st, a, key, value) ==
    LET s == get_account(st, a).storage
        new_storage ==
            IF value = 0
            THEN [k \in DOMAIN s \ {key} |-> s[k]]
            ELSE [k \in DOMAIN s \cup {key} |-> IF k = key THEN value ELSE s[k]]
    IN set_account(st, a, [get_account(st, a) EXCEPT !.storage = new_storage])

(* An increment that adds 2 *)
increment_nonce_twice(st, a) ==
    set_account(st, a, [get_account(st, a) EXCEPT !.nonce = @ + 2])

increment_nonce(st, a) ==
    set_account(st, a, [get_account(st, a) EXCEPT !.nonce = @ + 1])

account_exists(st, a) ==
    IF a \notin DOMAIN st THEN FALSE
    ELSE st[a].nonce # 0 \/ st[a].balance # 0 \/ st[a].code # EmptyBytes

(* A copy that shares the accounts with the original: the same object *)
StateCopyShallow(h, ref) == [heap |-> h, ref |-> ref]

(* State.copy: a new State object holding a deep copy of the accounts *)
StateCopy(h, ref) ==
    LET new == Cardinality(DOMAIN h) + 1
    IN [heap |-> [r \in DOMAIN h \cup {new} |-> IF r = new THEN h[ref] ELSE h[r]],
        ref  |-> new]

(* create_address: the last 20 bytes of Keccak-256(RLP([sender, nonce])),
   modelled as an injection of (sender, nonce) into the addresses above the
   initial ones. *)
AddrRadix == 16
create_address(sender, nonce) == sender * AddrRadix + nonce + 1

-----------------------------------------------------------------------------
(* Gas formulas (ethereum/frontier/vm/gas.py) *)

copy_cost(size) == G_COPY * ((size + 31) \div 32)

log_cost(data_size, num_topics) == G_LOG + G_LOGDATA * data_size + G_LOGTOPIC * num_topics

call_cost(value, target_exists) ==
    G_CALL + (IF value > 0
              THEN G_CALLVALUE + (IF ~target_exists THEN G_NEWACCOUNT ELSE 0)
              ELSE 0)

sstore_cost(current_value, new_value) ==
    IF current_value = 0 /\ new_value # 0 THEN G_SSET ELSE G_SRESET

transaction_intrinsic_gas(data, is_create) ==
    (IF is_create THEN G_TXCREATE ELSE G_TRANSACTION)
    + G_TXDATAZERO * (data.len - Cardinality(DOMAIN data.nz))
    + G_TXDATANONZERO * Cardinality(DOMAIN data.nz)

-----------------------------------------------------------------------------
(* Stack (ethereum/frontier/vm/stack.py); the top of the stack is the last
   element, as in the Python list.  Peek(s, d) is the element at depth d. *)

Peek(s, d) == s[Len(s) - d]
Drop(s, k) == SubSeq(s, 1, Len(s) - k)
stack_push(s, value) == Append(s, u256(value))
stack_dup(s, n) == Append(s, s[Len(s) + 1 - n])
stack_swap(s, n) ==
    [s EXCEPT ![Len(s)] = s[Len(s) - n], ![Len(s) - n] = s[Len(s)]]

-----------------------------------------------------------------------------
(* Interpreter (ethereum/frontier/vm/interpreter.py,
   ethereum/shanghai/vm/interpreter.py) *)

(* The methods of Stack: the stack afterwards, the exception raised and the
   value returned *)
Outcome3(stack, error, out) == [stack |-> stack, error |-> error, out |-> out]
Stack_push_unchecked(s, value) == Outcome3(stack_push(s, value), "none", 0)
Stack_push(s, value) ==
    IF Len(s) >= MAX_DEPTH THEN Outcome3(s, "StackOverflow", 0)
    ELSE Outcome3(stack_push(s, value), "none", 0)
Stack_pop(s) ==
    IF s = <<>> THEN Outcome3(s, "StackUnderflow", 0)
    ELSE Outcome3(Drop(s, 1), "none", Peek(s, 0))
Stack_peek(s, depth) ==
    IF depth >= Len(s) THEN Outcome3(s, "StackUnderflow", 0)
    ELSE Outcome3(s, "none", Peek(s, depth))
Stack_set(s, depth, value) ==
    IF depth >= Len(s) THEN Outcome3(s, "StackUnderflow", 0)
    ELSE Outcome3([s EXCEPT ![Len(s) - depth] = u256(value)], "none", 0)
Stack_dup(s, n) ==
    IF n < 1 \/ n > 16 THEN Outcome3(s, "ValueError", 0)
    ELSE IF n > Len(s) THEN Outcome3(s, "StackUnderflow", 0)
    ELSE IF Len(s) >= MAX_DEPTH THEN Outcome3(s, "StackOverflow", 0)
    ELSE Outcome3(stack_dup(s, n), "none", 0)
(* A swap with the element one position too high *)
Stack_swap_above(s, n) ==
    IF n < 1 \/ n > 16 THEN Outcome3(s, "ValueError", 0)
    ELSE IF n + 1 > Len(s) THEN Outcome3(s, "StackUnderflow", 0)
    ELSE Outcome3(stack_swap(s, n - 1), "none", 0)
Stack_swap(s, n) ==
    IF n < 1 \/ n > 16 THEN Outcome3(s, "ValueError", 0)
    ELSE IF n + 1 > Len(s) THEN Outcome3(s, "StackUnderflow", 0)
    ELSE Outcome3(stack_swap(s, n), "none", 0)

NoAddr == 0 - 1
NoError == "none"
NoWait == [kind |-> "none"]

NewMessage(caller, target, value, data, gas, depth, code, code_address, is_static, is_create) ==
    [caller |-> caller, target |-> target, value |-> value, data |-> data,
     gas |-> gas, depth |-> depth, code |-> code, code_address |-> code_address,
     is_static |-> is_static, is_create |-> is_create]

ExecutionResult(success, gas_used, gas_remaining, rd, logs, error, created) ==
    [success |-> success, gas_used |-> gas_used, gas_remaining |-> gas_remaining,
     return_data |-> rd, logs |-> logs, error |-> error, created_address |-> created]

(* `if message.is_static: raise WriteProtectionError(...)`, the guard that
   opens SSTORE, LOGn, CREATE, CREATE2 and SELFDESTRUCT *)
write_protected(message) == message.is_static

(* The locals of one execute() invocation.  entry_state records the accounts
   at the moment the frame was entered; it is history, never read by a step. *)
NewFrame(message, st) ==
    [message |-> message, pc |-> 0, gas_remaining |-> message.gas,
     stack |-> <<>>, memory |-> EmptyBytes, logs |-> <<>>,
     wait |-> NoWait, entry_state |-> st]

(* A scan that takes every 0x5B byte for a JUMPDEST *)
find_jumpdests_anywhere(code, i) ==
    {d \in i..(code.len - 1) : ByteAt(code, d) = JUMPDEST}

(* _find_jumpdests: scan from i, skipping PUSH data *)
RECURSIVE find_jumpdests(_, _)
find_jumpdests(code, i) ==
    IF i >= code.len THEN {}
    ELSE LET opcode == ByteAt(code, i)
             here == IF opcode = JUMPDEST THEN {i} ELSE {}
             skip == IF PUSH1 <= opcode /\ opcode <= PUSH32
                     THEN opcode - PUSH1 + 1 ELSE 0
         IN here \cup find_jumpdests(code, i + skip + 1)

(* What one opcode does to the frame: it goes on ("next"), it ends the frame
   ("done"), it raises ("raise"), or it enters a sub-frame ("spawn"). *)
OpNext(f, st) ==
    [tag |-> "next", frame |-> f, state |-> st, success |-> TRUE,
     rd |-> EmptyBytes, error |-> NoError, child |-> NoWait]
OpDone(f, st, success, gas_remaining, rd) ==
    [tag |-> "done", frame |-> [f EXCEPT !.gas_remaining = gas_remaining],
     state |-> st, success |-> success, rd |-> rd, error |-> NoError,
     child |-> NoWait]
OpRaise(f, st, error) ==
    [tag |-> "raise", frame |-> f, state |-> st, success |-> FALSE,
     rd |-> EmptyBytes, error |-> error, child |-> NoWait]
OpSpawn(f, st, child) ==
    [tag |-> "spawn", frame |-> f, state |-> st, success |-> TRUE,
     rd |-> EmptyBytes, error |-> NoError, child |-> child]

(* A step that charges `cost`, needs `need` operands, pops `pops` of them and
   pushes `pushed` (a sequence of at most one value, in push order). *)
Advance(f, st, gas, stack, memory, pc) ==
    OpNext([f EXCEPT !.gas_remaining = gas, !.stack = stack,
                     !.memory = memory, !.pc = pc], st)

PushResult(f, st, gas, stack, value, memory, pc) ==
    IF Len(stack) >= MAX_DEPTH THEN OpRaise(f, st, "StackOverflow")
    ELSE Advance(f, st, gas, stack_push(stack, value), memory, pc)

(* POP .. JUMPDEST, PUSHn, DUPn, SWAPn *)
OpStackMemFlow(f, st, opcode) ==
    LET s == f.stack
        n == Len(s)
        g == f.gas_remaining
        mem == f.memory
        pc == f.pc
        code == f.message.code
        oog(cost) == cost > g
    IN
    IF opcode = POP THEN
        IF oog(G_BASE) THEN OpRaise(f, st, "OutOfGas")
        ELSE IF n < 1 THEN OpRaise(f, st, "StackUnderflow")
        ELSE Advance(f, st, g - G_BASE, Drop(s, 1), mem, pc + 1)
    ELSE IF opcode = MLOAD THEN
        IF n < 1 THEN OpRaise(f, st, "StackUnderflow")
        ELSE LET offset == Peek(s, 0)
                 cost == G_VERYLOW + expansion_cost(mem, offset, 32)
             IN IF oog(cost) THEN OpRaise(f, st, "OutOfGas")
                ELSE PushResult(f, st, g - cost, Drop(s, 1), load_word(mem, offset),
                                mem_expand(mem, offset, 32), pc + 1)
    ELSE IF opcode = MSTORE THEN
        IF n < 2 THEN OpRaise(f, st, "StackUnderflow")
        ELSE LET offset == Peek(s, 0)
                 value == Peek(s, 1)
                 cost == G_VERYLOW + expansion_cost(mem, offset, 32)
             IN IF oog(cost) THEN OpRaise(f, st, "OutOfGas")
                ELSE Advance(f, st, g - cost, Drop(s, 2),
                             store_word(mem, offset, value), pc + 1)
    ELSE IF opcode = MSTORE8 THEN
        IF n < 2 THEN OpRaise(f, st, "StackUnderflow")
        ELSE LET offset == Peek(s, 0)
                 value == Peek(s, 1)
                 cost == G_VERYLOW + expansion_cost(mem, offset, 1)
             IN IF oog(cost) THEN OpRaise(f, st, "OutOfGas")
                ELSE Advance(f, st, g - cost, Drop(s, 2),
                             store_byte(mem, offset, value), pc + 1)
    ELSE IF opcode = JUMP THEN
        IF oog(G_MID) THEN OpRaise(f, st, "OutOfGas")
        ELSE IF n < 1 THEN OpRaise(f, st, "StackUnderflow")
        ELSE IF Peek(s, 0) \notin find_jumpdests(code, 0)
             THEN OpRaise(f, st, "InvalidJump")
        ELSE Advance(f, st, g - G_MID, Drop(s, 1), mem, Peek(s, 0))
    ELSE IF opcode = JUMPI THEN
        IF oog(G_HIGH) THEN OpRaise(f, st, "OutOfGas")
        ELSE IF n < 2 THEN OpRaise(f, st, "StackUnderflow")
        ELSE IF Peek(s, 1) # 0
             THEN IF Peek(s, 0) \notin find_jumpdests(code, 0)
                  THEN OpRaise(f, st, "InvalidJump")
                  ELSE Advance(f, st, g - G_HIGH, Drop(s, 2), mem, Peek(s, 0))
        ELSE Advance(f, st, g - G_HIGH, Drop(s, 2), mem, pc + 1)
    ELSE IF opcode \in {PC, MSIZE, GAS} THEN
        IF oog(G_BASE) THEN OpRaise(f, st, "OutOfGas")
        ELSE PushResult(f, st, g - G_BASE, s,
                        IF opcode = PC THEN pc
                        ELSE IF opcode = MSIZE THEN mem.len ELSE g - G_BASE,
                        mem, pc + 1)
    ELSE IF opcode = JUMPDEST THEN
        IF oog(G_JUMPDEST) THEN OpRaise(f, st, "OutOfGas")
        ELSE Advance(f, st, g - G_JUMPDEST, s, mem, pc + 1)
    ELSE IF PUSH1 <= opcode /\ opcode <= PUSH32 THEN
        IF oog(G_VERYLOW) THEN OpRaise(f, st, "OutOfGas")
        ELSE LET push_size == opcode - PUSH1 + 1
                 raw == Slice(code, pc + 1, push_size)
                 push_data == ZeroExtend(raw, push_size - raw.len)
             IN PushResult(f, st, g - G_VERYLOW, s, int_from_bytes(push_data),
                           mem, pc + 1 + push_size)
    ELSE IF DUP1 <= opcode /\ opcode <= DUP16 THEN
        IF oog(G_VERYLOW) THEN OpRaise(f, st, "OutOfGas")
        ELSE LET k == opcode - DUP1 + 1
             IN IF k > n THEN OpRaise(f, st, "StackUnderflow")
                ELSE IF n >= MAX_DEPTH THEN OpRaise(f, st, "StackOverflow")
                ELSE Advance(f, st, g - G_VERYLOW, stack_dup(s, k), mem, pc + 1)
    ELSE \* SWAP1 .. SWAP16
        IF oog(G_VERYLOW) THEN OpRaise(f, st, "OutOfGas")
        ELSE LET k == opcode - SWAP1 + 1
             IN IF k + 1 > n THEN OpRaise(f, st, "StackUnderflow")
                ELSE Advance(f, st, g - G_VERYLOW, stack_swap(s, k), mem, pc + 1)

(* RETURNDATASIZE: the length of self.return_data *)
OpReturnDataSize(f, st, rd) ==
    IF G_BASE > f.gas_remaining THEN OpRaise(f, st, "OutOfGas")
    ELSE PushResult(f, st, f.gas_remaining - G_BASE, f.stack, rd.len, f.memory, f.pc + 1)

(* RETURNDATACOPY: the bounds check on self.return_data comes before the
   charge *)
OpReturnDataCopy(f, st, rd) ==
    IF Len(f.stack) < 3 THEN OpRaise(f, st, "StackUnderflow")
    ELSE LET dest_offset == Peek(f.stack, 0)
             src_offset == Peek(f.stack, 1)
             size == Peek(f.stack, 2)
             cost == G_VERYLOW + expansion_cost(f.memory, dest_offset, size)
                     + copy_cost(size)
         IN IF src_offset + size > rd.len THEN OpRaise(f, st, "ReturnDataOutOfBounds")
            ELSE IF cost > f.gas_remaining THEN OpRaise(f, st, "OutOfGas")
            ELSE Advance(f, st, f.gas_remaining - cost, Drop(f.stack, 3),
                         mem_store(f.memory, dest_offset, Slice(rd, src_offset, size)),
                         f.pc + 1)

(* SLOAD, SSTORE *)
OpStorage(f, st, opcode) ==
    LET s == f.stack
        n == Len(s)
        g == f.gas_remaining
        target == f.message.target
    IN
    IF opcode = SLOAD THEN
        IF G_SLOAD > g THEN OpRaise(f, st, "OutOfGas")
        ELSE IF n < 1 THEN OpRaise(f, st, "StackUnderflow")
        ELSE PushResult(f, st, g - G_SLOAD, Drop(s, 1),
                        get_storage(st, target, Peek(s, 0)), f.memory, f.pc + 1)
    ELSE \* SSTORE
        IF write_protected(f.message) THEN OpRaise(f, st, "WriteProtection")
        ELSE IF n < 2 THEN OpRaise(f, st, "StackUnderflow")
        ELSE LET key == Peek(s, 0)
                 value == Peek(s, 1)
                 gas_cost == sstore_cost(get_storage(st, target, key), value)
             IN IF gas_cost > g THEN OpRaise(f, st, "OutOfGas")
                ELSE Advance(f, set_storage(st, target, key, value), g - gas_cost,
                             Drop(s, 2), f.memory, f.pc + 1)

(* LOG0 .. LOG4 *)
OpLog(f, st, opcode) ==
    LET s == f.stack
        n == Len(s)
        g == f.gas_remaining
        num_topics == opcode - LOG0
    IN
    IF write_protected(f.message) THEN OpRaise(f, st, "WriteProtection")
    ELSE IF n < 2 + num_topics THEN OpRaise(f, st, "StackUnderflow")
    ELSE LET offset == Peek(s, 0)
             size == Peek(s, 1)
             topics == [i \in 1..num_topics |-> Peek(s, 1 + i)]
             cost == expansion_cost(f.memory, offset, size) + log_cost(size, num_topics)
         IN IF cost > g THEN OpRaise(f, st, "OutOfGas")
            ELSE OpNext([f EXCEPT !.gas_remaining = g - cost,
                                  !.stack = Drop(s, 2 + num_topics),
                                  !.memory = mem_expand(f.memory, offset, size),
                                  !.logs = Append(@, [address |-> f.message.target,
                                                       topics |-> topics,
                                                       data |-> mem_load(f.memory, offset, size)]),
                                  !.pc = f.pc + 1], st)

(* RETURN, REVERT *)
(* A REVERT that leaves the frame no gas *)
OpReturnRevertBurns(f, st, opcode) ==
    LET s == f.stack
        g == f.gas_remaining
    IN
    IF Len(s) < 2 THEN OpRaise(f, st, "StackUnderflow")
    ELSE LET offset == Peek(s, 0)
             size == Peek(s, 1)
             mem_cost == expansion_cost(f.memory, offset, size)
         IN IF mem_cost > g THEN OpRaise(f, st, "OutOfGas")
            ELSE OpDone(f, st, opcode = RETURN, IF opcode = RETURN THEN g - mem_cost ELSE 0,
                        mem_load(f.memory, offset, size))

OpReturn(f, st, opcode) ==
    LET s == f.stack
        g == f.gas_remaining
    IN
    IF Len(s) < 2 THEN OpRaise(f, st, "StackUnderflow")
    ELSE LET offset == Peek(s, 0)
             size == Peek(s, 1)
             mem_cost == expansion_cost(f.memory, offset, size)
         IN IF mem_cost > g THEN OpRaise(f, st, "OutOfGas")
            ELSE OpDone(f, st, opcode = RETURN, g - mem_cost,
                        mem_load(f.memory, offset, size))

(* SELFDESTRUCT *)
(* An exception that is no EVMError / stack error: execute does not catch it *)
OpEscape(f, st, error) ==
    [tag |-> "escape", frame |-> f, state |-> st, success |-> FALSE,
     rd |-> EmptyBytes, error |-> error, child |-> NoWait]

(* BALANCE: charge, pop, addr.to_bytes(20, "big"), push the balance *)
OpBalance(f, st) ==
    IF G_BALANCE > f.gas_remaining THEN OpRaise(f, st, "OutOfGas")
    ELSE IF Len(f.stack) < 1 THEN OpRaise(f, st, "StackUnderflow")
    ELSE IF Peek(f.stack, 0) >= AddressModulus THEN OpEscape(f, st, "OverflowError")
    ELSE PushResult(f, st, f.gas_remaining - G_BALANCE, Drop(f.stack, 1),
                    get_balance(st, Peek(f.stack, 0)), f.memory, f.pc + 1)

(* EXTCODEHASH: 0 for an account that does not exist; for one that does the
   handler reads hashlib, a local of _execute_opcode that SHA3 alone binds *)
OpExtCodeHash(f, st) ==
    IF G_BALANCE > f.gas_remaining THEN OpRaise(f, st, "OutOfGas")
    ELSE IF Len(f.stack) < 1 THEN OpRaise(f, st, "StackUnderflow")
    ELSE IF Peek(f.stack, 0) >= AddressModulus THEN OpEscape(f, st, "OverflowError")
    ELSE IF account_exists(st, Peek(f.stack, 0)) THEN OpEscape(f, st, "UnboundLocalError")
    ELSE PushResult(f, st, f.gas_remaining - G_BALANCE, Drop(f.stack, 1), 0,
                    f.memory, f.pc + 1)

(* A SELFDESTRUCT that pays the recipient and leaves the contract as it is *)
OpSelfdestructPaysOnly(f, st) ==
    IF write_protected(f.message) THEN OpRaise(f, st, "WriteProtection")
    ELSE IF G_SELFDESTRUCT > f.gas_remaining THEN OpRaise(f, st, "OutOfGas")
    ELSE IF Len(f.stack) < 1 THEN OpRaise(f, st, "StackUnderflow")
    ELSE IF Peek(f.stack, 0) >= AddressModulus THEN OpEscape(f, st, "OverflowError")
    ELSE OpDone(f, set_balance(st, Peek(f.stack, 0),
                               get_balance(st, Peek(f.stack, 0))
                               + get_balance(st, f.message.target)),
                TRUE, f.gas_remaining - G_SELFDESTRUCT, EmptyBytes)

OpSelfdestruct(f, st) ==
    LET s == f.stack
        g == f.gas_remaining
        target == f.message.target
    IN
    IF write_protected(f.message) THEN OpRaise(f, st, "WriteProtection")
    ELSE IF G_SELFDESTRUCT > g THEN OpRaise(f, st, "OutOfGas")
    ELSE IF Len(s) < 1 THEN OpRaise(f, st, "StackUnderflow")
    ELSE IF Peek(s, 0) >= AddressModulus THEN OpEscape(f, st, "OverflowError")
    ELSE LET recipient == Peek(s, 0)
             balance == get_balance(st, target)
             st1 == set_balance(st, recipient, get_balance(st, recipient) + balance)
             st2 == set_balance(st1, target, 0)
             st3 == set_account(st2, target, EmptyAccount)
         IN OpDone(f, st3, TRUE, g - G_SELFDESTRUCT, EmptyBytes)

(* A CREATE that increments the creator's nonce before it looks at the
   balance *)
OpCreateNonceFirst(f, st) ==
    LET s == f.stack
        g == f.gas_remaining
        m == f.message
    IN
    IF write_protected(m) THEN OpRaise(f, st, "WriteProtection")
    ELSE IF Len(s) < 3 THEN OpRaise(f, st, "StackUnderflow")
    ELSE LET value == Peek(s, 0)
             cost == G_CREATE + expansion_cost(f.memory, Peek(s, 1), Peek(s, 2))
         IN IF cost > g THEN OpRaise(f, st, "OutOfGas")
            ELSE PushResult(f, increment_nonce(st, m.target), g - cost, Drop(s, 3), 0,
                            f.memory, f.pc + 1)

(* CREATE up to the call of self.execute(create_message) *)
OpCreate(f, st) ==
    LET s == f.stack
        g == f.gas_remaining
        m == f.message
    IN
    IF write_protected(m) THEN OpRaise(f, st, "WriteProtection")
    ELSE IF Len(s) < 3 THEN OpRaise(f, st, "StackUnderflow")
    ELSE LET value == Peek(s, 0)
             offset == Peek(s, 1)
             size == Peek(s, 2)
             cost == G_CREATE + expansion_cost(f.memory, offset, size)
             g1 == g - cost
         IN IF cost > g THEN OpRaise(f, st, "OutOfGas")
            ELSE IF get_balance(st, m.target) < value
                 THEN PushResult(f, st, g1, Drop(s, 3), 0, f.memory, f.pc + 1)
            ELSE LET init_code == mem_load(f.memory, offset, size)
                     sender_nonce == get_account(st, m.target).nonce
                     new_address == create_address(m.target, sender_nonce)
                     st1 == increment_nonce(st, m.target)
                     st2 == set_balance(st1, m.target, get_balance(st1, m.target) - value)
                     st3 == set_balance(st2, new_address, get_balance(st2, new_address) + value)
                     create_gas == g1 - (g1 \div 64)
                     create_message ==
                         NewMessage(m.target, new_address, value, EmptyBytes, create_gas,
                                    m.depth + 1, init_code, 0, FALSE, TRUE)
                 IN OpSpawn([f EXCEPT !.gas_remaining = g1 - create_gas,
                                      !.stack = Drop(s, 3),
                                      !.memory = mem_expand(f.memory, offset, size),
                                      !.wait = [kind |-> "create", call_type |-> "CREATE",
                                                new_address |-> new_address,
                                                value |-> value, pre_state |-> st]],
                            st3, create_message)

(* CREATE2: the static check, the pops, the charge and the balance check are
   as for CREATE; then hashlib, a local name of _execute_opcode that is bound
   only in the SHA3 branch, is read unbound. *)
OpCreate2(f, st) ==
    LET s == f.stack
        g == f.gas_remaining
        m == f.message
    IN
    IF write_protected(m) THEN OpRaise(f, st, "WriteProtection")
    ELSE IF Len(s) < 4 THEN OpRaise(f, st, "StackUnderflow")
    ELSE LET value == Peek(s, 0)
             offset == Peek(s, 1)
             size == Peek(s, 2)
             cost == G_CREATE + expansion_cost(f.memory, offset, size) + copy_cost(size)
         IN IF cost > g THEN OpRaise(f, st, "OutOfGas")
            ELSE IF get_balance(st, m.target) < value
                 THEN PushResult(f, st, g - cost, Drop(s, 4), 0, f.memory, f.pc + 1)
            ELSE OpEscape(f, st, "UnboundLocalError")

(* _handle_call up to the call of self.execute(call_message) *)
handle_call(f, st, call_type) ==
    LET s == f.stack
        m == f.message
        has_value == call_type \in {"CALL", "CALLCODE"}
        k == IF has_value THEN 1 ELSE 0
    IN
    IF Len(s) < 6 + k THEN OpRaise(f, st, "StackUnderflow")
    ELSE IF Peek(s, 1) >= AddressModulus THEN OpEscape(f, st, "OverflowError")
    ELSE LET gas == Peek(s, 0)
             address == Peek(s, 1)
             value == IF has_value THEN Peek(s, 2)
                      ELSE IF call_type = "DELEGATECALL" THEN m.value ELSE 0
             args_offset == Peek(s, 2 + k)
             args_size == Peek(s, 3 + k)
             ret_offset == Peek(s, 4 + k)
             ret_size == Peek(s, 5 + k)
             rest == Drop(s, 6 + k)
             mem_cost == Max(expansion_cost(f.memory, args_offset, args_size),
                             expansion_cost(f.memory, ret_offset, ret_size))
             total_cost == call_cost(value, account_exists(st, address)) + mem_cost
             g1 == f.gas_remaining - total_cost
         IN IF total_cost > f.gas_remaining THEN OpRaise(f, st, "OutOfGas")
            ELSE IF m.is_static /\ call_type = "CALL" /\ value > 0
                 THEN OpRaise(f, st, "WriteProtection")
            ELSE IF call_type = "CALL" /\ value > 0 /\ get_balance(st, m.target) < value
                 THEN PushResult(f, st, g1, rest, 0, f.memory, f.pc + 1)
            ELSE LET gas_cap == g1 - (g1 \div 64)
                     gas_to_forward ==
                         Min(gas, gas_cap)
                         + (IF call_type = "CALL" /\ value > 0 THEN G_CALLSTIPEND ELSE 0)
                     call_data == mem_load(f.memory, args_offset, args_size)
                     code_to_execute == get_code(st, address)
                     target_address ==
                         IF call_type \in {"CALL", "STATICCALL"} THEN address ELSE m.target
                     caller == IF call_type = "DELEGATECALL" THEN m.caller ELSE m.target
                     transfer == call_type = "CALL" /\ value > 0
                     st1 == IF transfer
                            THEN set_balance(st, m.target, get_balance(st, m.target) - value)
                            ELSE st
                     st2 == IF transfer
                            THEN set_balance(st1, address, get_balance(st1, address) + value)
                            ELSE st1
                     call_message ==
                         NewMessage(caller, target_address,
                                    IF has_value THEN value ELSE m.value,
                                    call_data, gas_to_forward, m.depth + 1,
                                    code_to_execute, address,
                                    m.is_static \/ call_type = "STATICCALL", FALSE)
                 IN OpSpawn([f EXCEPT !.gas_remaining = g1 - gas_to_forward,
                                      !.stack = rest,
                                      !.memory = mem_expand(f.memory, args_offset, args_size),
                                      !.wait = [kind |-> "call", call_type |-> call_type,
                                                address |-> address, value |-> value,
                                                ret_offset |-> ret_offset,
                                                ret_size |-> ret_size,
                                                pre_state |-> st]],
                            st2, call_message)

CallTypeOf(opcode) ==
    IF opcode = CALL THEN "CALL"
    ELSE IF opcode = CALLCODE THEN "CALLCODE"
    ELSE IF opcode = DELEGATECALL THEN "DELEGATECALL" ELSE "STATICCALL"

(* The opcodes of _execute_opcode the model executes; a program never holds
   another defined opcode as an instruction. *)
ModelledOpcodes ==
    {STOP, BALANCE, EXTCODEHASH, RETURNDATASIZE, RETURNDATACOPY, POP, MLOAD, MSTORE, MSTORE8, SLOAD, SSTORE, JUMP, JUMPI, PC, MSIZE, GAS,
     JUMPDEST, PUSH0, CREATE, CALL, CALLCODE, RETURN, DELEGATECALL, CREATE2,
     STATICCALL, REVERT, INVALID, SELFDESTRUCT}
    \cup (PUSH1..PUSH32) \cup (DUP1..DUP16) \cup (SWAP1..SWAP16) \cup (LOG0..LOG4)

(* A PUSH0 that every fork executes as Shanghai does *)
OpPush0EveryFork(fk, f, st) ==
    IF G_PUSH0 > f.gas_remaining THEN OpRaise(f, st, "OutOfGas")
    ELSE PushResult(f, st, f.gas_remaining - G_PUSH0, f.stack, 0, f.memory, f.pc + 1)

(* Byte 0x5F in the loop of execute: Interpreter.execute raises
   InvalidOpcodeError, ShanghaiInterpreter.execute charges G_PUSH0 and
   pushes 0. *)
OpPush0(fk, f, st) ==
    IF fk # "F2" THEN OpRaise(f, st, "InvalidOpcode")
    ELSE IF G_PUSH0 > f.gas_remaining THEN OpRaise(f, st, "OutOfGas")
    ELSE PushResult(f, st, f.gas_remaining - G_PUSH0, f.stack, 0, f.memory, f.pc + 1)

(* One iteration of the loop of execute: the PUSH0 pre-check of the fork, then
   _execute_opcode. *)
ExecOpcode(fk, f, st) ==
    LET opcode == ByteAt(f.message.code, f.pc)
    IN
    IF opcode = PUSH0 THEN OpPush0(fk, f, st)
    ELSE IF opcode = STOP THEN OpDone(f, st, TRUE, f.gas_remaining, EmptyBytes)
    ELSE IF opcode = BALANCE THEN OpBalance(f, st)
    ELSE IF opcode = EXTCODEHASH THEN OpExtCodeHash(f, st)
    ELSE IF opcode = RETURNDATASIZE THEN OpReturnDataSize(f, st, return_data)
    ELSE IF opcode = RETURNDATACOPY THEN OpReturnDataCopy(f, st, return_data)
    ELSE IF opcode \in {SLOAD, SSTORE} THEN OpStorage(f, st, opcode)
    ELSE IF opcode \in (POP..JUMPDEST) \cup (PUSH1..SWAP16)
         THEN OpStackMemFlow(f, st, opcode)
    ELSE IF opcode \in LOG0..LOG4 THEN OpLog(f, st, opcode)
    ELSE IF opcode = CREATE THEN OpCreate(f, st)
    ELSE IF opcode = CREATE2 THEN OpCreate2(f, st)
    ELSE IF opcode \in {CALL, CALLCODE, DELEGATECALL, STATICCALL}
         THEN handle_call(f, st, CallTypeOf(opcode))
    ELSE IF opcode \in {RETURN, REVERT} THEN OpReturn(f, st, opcode)
    ELSE IF opcode = SELFDESTRUCT THEN OpSelfdestruct(f, st)
    ELSE OpRaise(f, st, "InvalidOpcode")  \* INVALID and every unknown byte

(* The rest of the CALL / CREATE handler, run when self.execute(...) returns
   `res`: what the calling frame and the State become. *)
(* A caller that gets back all the gas it forwarded, used or not *)
ResumeCallReturnsAll(parent, res, st) ==
    LET w == parent.wait
        copy_size == Min(w.ret_size, res.return_data.len)
        memory == IF copy_size > 0
                  THEN mem_store(parent.memory, w.ret_offset,
                                 Slice(res.return_data, 0, copy_size))
                  ELSE parent.memory
    IN [frame |-> [parent EXCEPT !.gas_remaining = @ + res.gas_remaining + res.gas_used,
                                 !.memory = memory,
                                 !.stack = stack_push(@, IF res.success THEN 1 ELSE 0),
                                 !.pc = @ + 1,
                                 !.wait = NoWait],
        state |-> st]

(* A caller that gets the forwarded gas back when the sub-frame failed *)
ResumeCallRefunded(parent, res, st) ==
    LET w == parent.wait
        copy_size == Min(w.ret_size, res.return_data.len)
        memory == IF copy_size > 0
                  THEN mem_store(parent.memory, w.ret_offset,
                                 Slice(res.return_data, 0, copy_size))
                  ELSE parent.memory
    IN [frame |-> [parent EXCEPT !.gas_remaining = @ + res.gas_remaining
                                                   + (IF res.success THEN 0 ELSE res.gas_used),
                                 !.memory = memory,
                                 !.stack = stack_push(@, IF res.success THEN 1 ELSE 0),
                                 !.pc = @ + 1,
                                 !.wait = NoWait],
        state |-> st]

ResumeCall(parent, res, st) ==
    LET w == parent.wait
        copy_size == Min(w.ret_size, res.return_data.len)
        memory == IF copy_size > 0
                  THEN mem_store(parent.memory, w.ret_offset,
                                 Slice(res.return_data, 0, copy_size))
                  ELSE parent.memory
    IN [frame |-> [parent EXCEPT !.gas_remaining = @ + res.gas_remaining,
                                 !.memory = memory,
                                 !.stack = stack_push(@, IF res.success THEN 1 ELSE 0),
                                 !.pc = @ + 1,
                                 !.wait = NoWait],
        state |-> st]

ResumeCreate(parent, res, st) ==
    LET w == parent.wait
        deploy_gas == res.return_data.len * G_CODEDEPOSIT
        deployed == res.success /\ res.gas_remaining >= deploy_gas
    IN [frame |-> [parent EXCEPT
                     !.gas_remaining =
                         @ + (IF deployed THEN res.gas_remaining - deploy_gas
                              ELSE res.gas_remaining),
                     !.stack = stack_push(@, IF deployed THEN w.new_address ELSE 0),
                     !.pc = @ + 1,
                     !.wait = NoWait],
        state |-> IF deployed THEN set_code(st, w.new_address, res.return_data) ELSE st]

Resume(parent, res, st) ==
    IF parent.wait.kind = "create" THEN ResumeCreate(parent, res, st)
    ELSE ResumeCall(parent, res, st)

(* The ExecutionResult execute returns for the innermost frame, when it
   returns at this step; out is what its opcode did. *)
RanOffEnd(f) == f.pc >= f.message.code.len

(* A result that reports the whole gas limit as used *)
FrameResultAllUsed(f, out) ==
    IF out.tag = "raise"
    THEN ExecutionResult(FALSE, f.message.gas, 0, EmptyBytes, <<>>, out.error, NoAddr)
    ELSE ExecutionResult(out.success, f.message.gas,
                         out.frame.gas_remaining, out.rd, out.frame.logs, NoError, NoAddr)

FrameResult(f, out) ==
    IF out.tag = "raise"
    THEN ExecutionResult(FALSE, f.message.gas, 0, EmptyBytes, <<>>, out.error, NoAddr)
    ELSE ExecutionResult(out.success, f.message.gas - out.frame.gas_remaining,
                         out.frame.gas_remaining, out.rd, out.frame.logs, NoError, NoAddr)

(* A depth check that lets one more level through *)
DepthExceededLate(message) == message.depth > MAX_CALL_DEPTH + 1

(* execute's depth check, made before the frame has any locals *)
DepthExceeded(message) == message.depth > MAX_CALL_DEPTH
DepthResult(message) ==
    ExecutionResult(FALSE, message.gas, 0, EmptyBytes, <<>>, "CallDepth", NoAddr)

-----------------------------------------------------------------------------
(* state_transition (ethereum/{frontier,homestead,shanghai}/fork.py) *)

IsCreate(t) == t.to = NoAddr

validate_transaction(fk, t, st) ==
    LET sender_account == get_account(st, t.sender)
        intrinsic_gas == transaction_intrinsic_gas(t.data, IsCreate(t))
    IN IF sender_account.nonce # t.nonce THEN "Invalid nonce"
       ELSE IF t.gas < intrinsic_gas THEN "Intrinsic gas too low"
       ELSE IF sender_account.balance < t.gas * t.gas_price + t.value
            THEN "Insufficient balance"
       ELSE IF fk = "F2" /\ IsCreate(t) /\ t.data.len > MAX_INITCODE_SIZE
            THEN "Initcode too large"
       ELSE NoError

(* intrinsic_gas as state_transition computes it after validation *)
IntrinsicGas(fk, t) ==
    transaction_intrinsic_gas(t.data, IsCreate(t))
    + (IF fk = "F2" /\ IsCreate(t)
       THEN INITCODE_WORD_COST * ((t.data.len + 31) \div 32) ELSE 0)

(* A driver that leaves the sender's nonce as it was *)
PrepareTransactionKeepNonce(fk, t, st) ==
    LET sender_account == get_account(st, t.sender)
        st1 == set_balance(st, t.sender, sender_account.balance - t.gas * t.gas_price)
        st2 == st1
        gas_remaining == t.gas - IntrinsicGas(fk, t)
        contract_address == create_address(t.sender, sender_account.nonce)
        target == IF IsCreate(t) THEN contract_address ELSE t.to
        st3 == IF t.value > 0
               THEN set_balance(st2, t.sender, get_balance(st2, t.sender) - t.value)
               ELSE st2
        st4 == IF t.value > 0
               THEN set_balance(st3, target, get_balance(st3, target) + t.value)
               ELSE st3
        message ==
            IF IsCreate(t)
            THEN NewMessage(t.sender, contract_address, t.value, EmptyBytes,
                            gas_remaining, 0, t.data, 0, FALSE, TRUE)
            ELSE NewMessage(t.sender, target, t.value, t.data, gas_remaining, 0,
                            get_code(st2, target), 0, FALSE, FALSE)
    IN [state |-> st4, message |-> message, intrinsic_gas |-> IntrinsicGas(fk, t),
        contract_address |-> contract_address]

(* The pre-charge, the nonce bump, the value transfer and the root Message *)
PrepareTransaction(fk, t, st) ==
    LET sender_account == get_account(st, t.sender)
        st1 == set_balance(st, t.sender, sender_account.balance - t.gas * t.gas_price)
        st2 == increment_nonce(st1, t.sender)
        gas_remaining == t.gas - IntrinsicGas(fk, t)
        contract_address == create_address(t.sender, sender_account.nonce)
        target == IF IsCreate(t) THEN contract_address ELSE t.to
        st3 == IF t.value > 0
               THEN set_balance(st2, t.sender, get_balance(st2, t.sender) - t.value)
               ELSE st2
        st4 == IF t.value > 0
               THEN set_balance(st3, target, get_balance(st3, target) + t.value)
               ELSE st3
        message ==
            IF IsCreate(t)
            THEN NewMessage(t.sender, contract_address, t.value, EmptyBytes,
                            gas_remaining, 0, t.data, 0, FALSE, TRUE)
            ELSE NewMessage(t.sender, target, t.value, t.data, gas_remaining, 0,
                            get_code(st2, target), 0, FALSE, FALSE)
    IN [state |-> st4, message |-> message, intrinsic_gas |-> IntrinsicGas(fk, t),
        contract_address |-> contract_address]

(* A deployment step that stores the code without asking for the deposit *)
DeployCreationUnpaid(fk, t, contract_address, res, st) ==
    IF ~res.success THEN [result |-> res, state |-> st]
    ELSE [result |-> ExecutionResult(TRUE, t.gas - res.gas_remaining, res.gas_remaining,
                                     res.return_data, res.logs, NoError, contract_address),
          state |-> set_code(st, contract_address, res.return_data)]

(* The deployment step of a creation transaction: the result that replaces
   the interpreter's, and the State *)
DeployCreation(fk, t, contract_address, res, st) ==
    LET deploy_gas == res.return_data.len * G_CODEDEPOSIT
    IN IF ~res.success THEN [result |-> res, state |-> st]
       ELSE IF fk = "F2" /\ res.return_data.len > MAX_CODE_SIZE
            THEN [result |-> ExecutionResult(FALSE, t.gas, 0, EmptyBytes, <<>>,
                                             "Code size limit exceeded", NoAddr),
                  state |-> st]
       ELSE IF res.gas_remaining >= deploy_gas
            THEN [result |-> ExecutionResult(TRUE, t.gas - res.gas_remaining + deploy_gas,
                                             res.gas_remaining - deploy_gas,
                                             res.return_data, res.logs, NoError,
                                             contract_address),
                  state |-> set_code(st, contract_address, res.return_data)]
       ELSE [result |-> ExecutionResult(FALSE, t.gas, 0, EmptyBytes, <<>>,
                                        "Out of gas for code deployment", NoAddr),
             state |-> st]

(* A settlement that pays the coinbase and forgets the sender's refund *)
SettleTransactionNoRefund(t, e, intrinsic_gas, res, st) ==
    LET total_gas_used == IF res.success THEN intrinsic_gas + res.gas_used ELSE t.gas
        coinbase_reward == total_gas_used * t.gas_price
    IN [state |-> set_balance(st, e.coinbase, get_balance(st, e.coinbase) + coinbase_reward),
        result |-> ExecutionResult(res.success, total_gas_used, t.gas - total_gas_used,
                                   res.return_data,
                                   IF res.success THEN res.logs ELSE <<>>,
                                   res.error,
                                   IF res.success THEN res.created_address ELSE NoAddr)]

(* Gas accounting, refund and coinbase payment; `res` is the result after the
   deployment step *)
SettleTransaction(t, e, intrinsic_gas, res, st) ==
    LET total_gas_used == IF res.success THEN intrinsic_gas + res.gas_used ELSE t.gas
        refund == (t.gas - total_gas_used) * t.gas_price
        st1 == set_balance(st, t.sender, get_balance(st, t.sender) + refund)
        coinbase_reward == total_gas_used * t.gas_price
        st2 == set_balance(st1, e.coinbase, get_balance(st1, e.coinbase) + coinbase_reward)
    IN [state |-> st2,
        result |-> ExecutionResult(res.success, total_gas_used, t.gas - total_gas_used,
                                   res.return_data,
                                   IF res.success THEN res.logs ELSE <<>>,
                                   res.error,
                                   IF res.success THEN res.created_address ELSE NoAddr)]

FinishTransaction(fk, t, e, info, res, st) ==
    LET d == IF IsCreate(t) THEN DeployCreation(fk, t, info.contract_address, res, st)
             ELSE [result |-> res, state |-> st]
    IN SettleTransaction(t, e, info.intrinsic_gas, d.result, d.state)

-----------------------------------------------------------------------------
(* Steps *)

NoResult == ExecutionResult(FALSE, 0, 0, EmptyBytes, <<>>, "pending", NoAddr)
NoFrame == [valid |-> FALSE]
NoCall == [valid |-> FALSE]
NoInfo == [valid |-> FALSE]

State == heap[stateRef]

(* What the return of the innermost frame, with result res in accounts st,
   makes of the frames below it; call is the history record of the opcode. *)
AfterReturn(below, res, st) ==
    LET parent == below[Len(below)]
        r == Resume(parent, res, st)
    IN [frames |-> [below EXCEPT ![Len(below)] = r.frame],
        state |-> r.state,
        call |-> [valid |-> TRUE, kind |-> parent.wait.kind,
                  call_type |-> parent.wait.call_type,
                  value |-> parent.wait.value,
                  caller |-> parent.message.target,
                  callee |-> IF parent.wait.kind = "create"
                             THEN parent.wait.new_address ELSE parent.wait.address,
                  static |-> parent.message.is_static,
                  success |-> res.success,
                  pushed |-> Peek(r.frame.stack, 0),
                  pre_state |-> parent.wait.pre_state,
                  post_state |-> r.state,
                  caller_storage_before |->
                      get_account(parent.wait.pre_state, parent.message.target).storage]]

FrameRecord(f, res, st) ==
    [valid |-> TRUE, message |-> f.message, result |-> res,
     entry_state |-> f.entry_state, exit_state |-> st, depth |-> f.message.depth]

(* state_transition, invalid transaction: the copy is returned untouched *)
BeginRejected ==
    /\ phase = "start"
    /\ LET c == StateCopy(heap, inputRef)
           error == validate_transaction(fork, tx, c.heap[c.ref])
       IN /\ error # NoError
          /\ heap' = c.heap
          /\ stateRef' = c.ref
          /\ result' = ExecutionResult(FALSE, 0, 0, EmptyBytes, <<>>, error, NoAddr)
          /\ txInfo' = [valid |-> TRUE, accepted |-> FALSE, input |-> heap[inputRef]]
    /\ phase' = "done"
    /\ frames' = <<>>
    /\ return_data' = EmptyBytes
    /\ UNCHANGED <<obj, fork, inputRef, tx, env, lastFrame, lastCall, run, firstOut>>

(* state_transition, valid transaction, up to interpreter.execute(message) *)
BeginAccepted ==
    /\ phase = "start"
    /\ LET c == StateCopy(heap, inputRef)
           error == validate_transaction(fork, tx, c.heap[c.ref])
           p == PrepareTransaction(fork, tx, c.heap[c.ref])
       IN /\ error = NoError
          /\ heap' = [c.heap EXCEPT ![c.ref] = p.state]
          /\ stateRef' = c.ref
          /\ frames' = <<NewFrame(p.message, p.state)>>
          /\ txInfo' = [valid |-> TRUE, accepted |-> TRUE, input |-> heap[inputRef],
                        intrinsic_gas |-> p.intrinsic_gas,
                        contract_address |-> p.contract_address,
                        message |-> p.message]
    /\ phase' = "exec"
    /\ return_data' = EmptyBytes
    /\ result' = NoResult
    /\ UNCHANGED <<obj, fork, inputRef, tx, env, lastFrame, lastCall, run, firstOut>>

Top == frames[Len(frames)]
Below == SubSeq(frames, 1, Len(frames) - 1)

(* The outcome of this step of the innermost frame *)
Outcome ==
    IF RanOffEnd(Top) THEN OpDone(Top, State, TRUE, Top.gas_remaining, EmptyBytes)
    ELSE ExecOpcode(fork, Top, State)

Executable ==
    /\ phase = "exec"
    /\ frames # <<>>
    /\ \/ RanOffEnd(Top)
       \/ ByteAt(Top.message.code, Top.pc) \in ModelledOpcodes
       \/ ByteAt(Top.message.code, Top.pc) \notin DefinedOpcodes

(* An opcode after which the frame goes on *)
StepOpcode ==
    /\ Executable
    /\ Outcome.tag = "next"
    /\ frames' = [frames EXCEPT ![Len(frames)] = Outcome.frame]
    /\ heap' = [heap EXCEPT ![stateRef] = Outcome.state]
    /\ UNCHANGED <<obj, fork, inputRef, stateRef, tx, env, phase, return_data, result,
                   lastFrame, lastCall, txInfo, run, firstOut>>

(* CALL, CALLCODE, DELEGATECALL, STATICCALL, CREATE entering a sub-frame *)
StepEnter ==
    /\ Executable
    /\ Outcome.tag = "spawn"
    /\ LET out == Outcome
           waiting == Append(Below, out.frame)
       IN IF DepthExceeded(out.child)
          THEN LET a == AfterReturn(waiting, DepthResult(out.child), out.state)
               IN /\ frames' = a.frames
                  /\ heap' = [heap EXCEPT ![stateRef] = a.state]
                  /\ return_data' = EmptyBytes
                  /\ lastCall' = a.call
                  /\ lastFrame' = [valid |-> TRUE, message |-> out.child,
                                   result |-> DepthResult(out.child),
                                   entry_state |-> out.state, exit_state |-> out.state,
                                   depth |-> out.child.depth]
          ELSE /\ frames' = Append(waiting, NewFrame(out.child, out.state))
               /\ heap' = [heap EXCEPT ![stateRef] = out.state]
               /\ UNCHANGED <<return_data, lastCall, lastFrame>>
    /\ UNCHANGED <<obj, fork, inputRef, stateRef, tx, env, phase, result, txInfo, run, firstOut>>

(* A sub-frame returns: the rest of its caller's CALL / CREATE handler runs *)
StepReturn ==
    /\ Executable
    /\ Outcome.tag \in {"done", "raise"}
    /\ Len(frames) > 1
    /\ LET out == Outcome
           res == FrameResult(Top, out)
           a == AfterReturn(Below, res, out.state)
       IN /\ frames' = a.frames
          /\ heap' = [heap EXCEPT ![stateRef] = a.state]
          /\ return_data' = res.return_data
          /\ lastCall' = a.call
          /\ lastFrame' = FrameRecord(Top, res, out.state)
    /\ UNCHANGED <<obj, fork, inputRef, stateRef, tx, env, phase, result, txInfo, run, firstOut>>

(* The root frame returns: the rest of state_transition runs *)
StepFinish ==
    /\ Executable
    /\ Outcome.tag \in {"done", "raise"}
    /\ Len(frames) = 1
    /\ LET out == Outcome
           res == FrameResult(Top, out)
           fin == FinishTransaction(fork, tx, env, txInfo, res, out.state)
       IN /\ heap' = [heap EXCEPT ![stateRef] = fin.state]
          /\ result' = fin.result
          /\ lastFrame' = FrameRecord(Top, res, out.state)
    /\ frames' = <<>>
    /\ phase' = "done"
    /\ UNCHANGED <<obj, fork, inputRef, stateRef, tx, env, return_data, lastCall, txInfo,
                   run, firstOut>>

(* An exception execute does not catch leaves state_transition without a result *)
StepEscape ==
    /\ Executable
    /\ Outcome.tag = "escape"
    /\ frames' = <<>>
    /\ phase' = "raised"
    /\ heap' = [heap EXCEPT ![stateRef] = Outcome.state]
    /\ UNCHANGED <<obj, fork, inputRef, stateRef, tx, env, return_data, result,
                   lastFrame, lastCall, txInfo, run, firstOut>>

(* The caller invokes state_transition again with the same objects *)
Reinvoke ==
    /\ phase = "done"
    /\ run = 1
    /\ run' = 2
    /\ firstOut' = [state |-> State, result |-> result]
    /\ phase' = "start"
    /\ UNCHANGED <<obj, fork, heap, inputRef, stateRef, tx, env, frames, return_data, result,
                   lastFrame, lastCall, txInfo>>

-----------------------------------------------------------------------------
(* Interpreter.execute called directly with a Message, as the unit tests call
   it (tests/conftest.py create_message); no transaction is involved, and the
   message may have any depth.  phase "call": execute has been called. *)

(* execute refuses a message that is too deep before it runs anything *)
ExecuteRefused ==
    /\ phase = "call"
    /\ DepthExceeded(frames[1].message)
    /\ result' = DepthResult(frames[1].message)
    /\ lastFrame' = FrameRecord(frames[1], DepthResult(frames[1].message), State)
    /\ frames' = <<>>
    /\ phase' = "returned"
    /\ UNCHANGED <<obj, fork, heap, inputRef, stateRef, tx, env, return_data, lastCall,
                   txInfo, run, firstOut>>

(* execute sets up its locals and enters the loop *)
ExecuteBegin ==
    /\ phase = "call"
    /\ ~DepthExceeded(frames[1].message)
    /\ phase' = "exec"
    /\ UNCHANGED <<obj, fork, heap, inputRef, stateRef, tx, env, frames, return_data,
                   result, lastFrame, lastCall, txInfo, run, firstOut>>

(* The frame of the direct call returns: its ExecutionResult is the outcome *)
ExecuteReturn ==
    /\ Executable
    /\ ~txInfo.valid
    /\ Outcome.tag \in {"done", "raise"}
    /\ Len(frames) = 1
    /\ LET out == Outcome
           res == FrameResult(Top, out)
       IN /\ heap' = [heap EXCEPT ![stateRef] = out.state]
          /\ result' = res
          /\ lastFrame' = FrameRecord(Top, res, out.state)
    /\ frames' = <<>>
    /\ phase' = "returned"
    /\ UNCHANGED <<obj, fork, inputRef, stateRef, tx, env, return_data, lastCall, txInfo,
                   run, firstOut>>

-----------------------------------------------------------------------------
(* A Stack object driven directly, as the unit tests drive it *)

NoObject == [kind |-> "none"]

MaxOps == 3      \* method calls made on one object

StackValues == {WordModulus + 5, 0 - 1}

ObjStack(name, args, outcome) ==
    /\ obj' = [obj EXCEPT !.stack = outcome.stack, !.error = outcome.error,
                          !.out = outcome.out, !.ops = @ + 1,
                          !.call = [name |-> name, args |-> args]]
    /\ UNCHANGED <<fork, heap, inputRef, stateRef, tx, env, phase, frames, return_data,
                   result, lastFrame, lastCall, txInfo, run, firstOut>>

StackCallable == obj.kind = "stack" /\ obj.ops < MaxOps

ObjPush ==
    /\ StackCallable
    /\ \E value \in StackValues :
           ObjStack("push", <<value>>, Stack_push(obj.stack, value))

ObjPop ==
    /\ StackCallable
    /\ ObjStack("pop", <<>>, Stack_pop(obj.stack))

ObjPeek ==
    /\ StackCallable
    /\ \E depth \in {0, 1, 16} : ObjStack("peek", <<depth>>, Stack_peek(obj.stack, depth))

ObjSet ==
    /\ StackCallable
    /\ \E depth \in {0, 1}, value \in StackValues :
           ObjStack("set", <<depth, value>>, Stack_set(obj.stack, depth, value))

ObjDup ==
    /\ StackCallable
    /\ \E n \in {1, 16, 17} : ObjStack("dup", <<n>>, Stack_dup(obj.stack, n))

ObjSwap ==
    /\ StackCallable
    /\ \E n \in {1, 16} : ObjStack("swap", <<n>>, Stack_swap(obj.stack, n))

-----------------------------------------------------------------------------
(* A Memory object driven directly *)

NoWord == [valid |-> FALSE]

FarOffset == 1000000

MemoryValues == {WordModulus + 5, 7}

(* One method call on the Memory: what it leaves, what it returns and the
   byte range [lo, hi) it writes.  obj.word remembers the last store_word
   whose 32 bytes have not been written since, and the number of calls made
   since. *)
ObjMemory(name, args, memory, out, lo, hi) ==
    /\ obj' = [obj EXCEPT
                 !.memory = memory, !.out = out, !.ops = @ + 1,
                 !.call = [name |-> name, args |-> args],
                 !.word = IF name = "store_word"
                          THEN [valid |-> TRUE, offset |-> args[1], value |-> args[2],
                                since |-> 0]
                          ELSE IF @.valid /\ lo < @.offset + 32 /\ @.offset < hi
                          THEN NoWord
                          ELSE IF @.valid THEN [@ EXCEPT !.since = @ + 1]
                          ELSE @]
    /\ UNCHANGED <<fork, heap, inputRef, stateRef, tx, env, phase, frames, return_data,
                   result, lastFrame, lastCall, txInfo, run, firstOut>>

MemoryCallable == obj.kind = "memory" /\ obj.ops < MaxOps

(* the word at offset fits the model's integers *)
LoadWordFits(mem, offset) ==
    /\ \A k \in DOMAIN mem.nz : ~(offset <= k /\ k < offset + 28)
    /\ ByteAt(mem, offset + 28) < 128

ObjLoad ==
    /\ MemoryCallable
    /\ \E a \in {<<0, 0>>, <<FarOffset, 0>>, <<0, 33>>, <<31, 33>>, <<70, 1>>} :
           ObjMemory("load", a, mem_expand(obj.memory, a[1], a[2]),
                     mem_load(obj.memory, a[1], a[2]), 0, 0)

ObjLoadWord ==
    /\ MemoryCallable
    /\ \E offset \in {0, 31, 70} :
           /\ LoadWordFits(obj.memory, offset)
           /\ ObjMemory("load_word", <<offset>>, mem_expand(obj.memory, offset, 32),
                        load_word(obj.memory, offset), 0, 0)

ObjStore ==
    /\ MemoryCallable
    /\ \E offset \in {0, 31, 70, FarOffset}, data \in {<<>>, <<0, 9>>} :
           /\ offset = FarOffset => data = <<>>
           /\ ObjMemory("store", <<offset, data>>,
                        mem_store(obj.memory, offset, BytesOf(data)), 0,
                        offset, offset + Len(data))

ObjStoreWord ==
    /\ MemoryCallable
    /\ \E offset \in {0, 31, 70}, value \in MemoryValues :
           ObjMemory("store_word", <<offset, value>>,
                     store_word(obj.memory, offset, value), 0, offset, offset + 32)

ObjStoreByte ==
    /\ MemoryCallable
    /\ \E offset \in {0, 31, 70} :
           ObjMemory("store_byte", <<offset, 511>>,
                     store_byte(obj.memory, offset, 511), 0, offset, offset + 1)

ObjCopyWithin ==
    /\ MemoryCallable
    /\ \E a \in {<<0, 31, 32>>, <<31, 0, 32>>, <<70, 0, 32>>, <<0, 70, 2>>,
                  <<FarOffset, 0, 0>>, <<0, FarOffset, 0>>} :
           ObjMemory("copy_within", a, copy_within(obj.memory, a[1], a[2], a[3]), 0,
                     a[1], a[1] + a[3])

-----------------------------------------------------------------------------
(* The inputs: accounts, contracts' byte code and transactions *)

MaxValue == 1      \* tx.value ranges over 0..MaxValue
MaxGasPrice == 1   \* tx.gas_price ranges over 0..MaxGasPrice
MaxNonce == 1      \* tx.nonce and the sender's nonce range over 0..MaxNonce

Addr == [sender |-> 1, B |-> 2, C |-> 3, coinbase |-> 4, eoa |-> 5, D |-> 6]

Push(v) ==
    IF v < 256 THEN <<PUSH1, v>>
    ELSE <<PUSH3, (v \div 65536) % 256, (v \div 256) % 256, v % 256>>

(* retSize, retOffset, argsSize, argsOffset, [value,] address, gas, opcode *)
CallSeq(opcode, hint, address, value) ==
    <<PUSH1, 0, PUSH1, 0, PUSH1, 0, PUSH1, 0>>
    \o (IF opcode \in {CALL, CALLCODE} THEN Push(value) ELSE <<>>)
    \o Push(address) \o Push(hint) \o <<opcode>>

RECURSIVE StoreBytes(_, _)
StoreBytes(bytes, at) ==
    IF bytes = <<>> THEN <<>>
    ELSE <<PUSH1, Head(bytes), PUSH1, at, MSTORE8>> \o StoreBytes(Tail(bytes), at + 1)

(* write init code to memory, then CREATE(value, 0, |init|) *)
CreateSeq(init, value) ==
    StoreBytes(init, 0) \o Push(Len(init)) \o <<PUSH1, 0>> \o Push(value) \o <<CREATE>>

SstoreInvalid == <<PUSH1, 7, PUSH1, 1, SSTORE, INVALID>>

(* REVERT with 64 bytes of memory, of which the second 32 are new *)
RevertWithData == <<PUSH1, 255, PUSH1, 0, MSTORE, PUSH1, 64, PUSH1, 0, REVERT>>

(* Return the size of the return-data buffer found on entry, as a word *)
ReturnBufferSize == <<RETURNDATASIZE, PUSH1, 0, MSTORE, PUSH1, 32, PUSH1, 0, RETURN>>
RevertBufferSize == <<RETURNDATASIZE, PUSH1, 0, MSTORE, PUSH1, 32, PUSH1, 0, REVERT>>

(* B makes two nested calls (or a call and a CREATE) and reads the buffer
   after each; C reads it on entry *)
ReturnDataPrograms ==
    { << CallSeq(CALL, 100000, Addr.C, 0) \o <<POP, RETURNDATASIZE>>
         \o CallSeq(opcode, 100000, Addr.C, 0) \o <<POP, RETURNDATASIZE, STOP>>, callee >> :
        opcode \in {CALL, STATICCALL, DELEGATECALL},
        callee \in {ReturnBufferSize, RevertBufferSize, <<RETURNDATASIZE, STOP>>} }
    \cup { << CallSeq(CALL, 100000, Addr.C, 0) \o <<POP>>
              \o CreateSeq(<<RETURNDATASIZE, INVALID>>, 0) \o <<RETURNDATASIZE, STOP>>,
              ReturnBufferSize >> }

(* Code of contract C, the callee *)
CalleePrograms ==
    { <<>>,
      <<PUSH1, 0, PUSH1, 0, REVERT>>,
      SstoreInvalid,
      <<PUSH1, 7, PUSH1, 1, SSTORE, STOP>>,
      <<PUSH1, 0, PUSH1, 0, LOG0>>,
      <<PUSH1, 0, PUSH1, 0, PUSH1, 0, CREATE>>,
      <<PUSH1, 0, PUSH1, 0, PUSH1, 0, PUSH1, 0, CREATE2>>,
      <<PUSH1, 5, SELFDESTRUCT>>,
      CallSeq(CALL, 0, Addr.eoa, 1),
      CallSeq(CALL, 50000, Addr.D, 0),
      <<PUSH0, STOP>>,
      <<PUSH1, 1, PUSH1, 0, PUSH1, 0, RETURNDATACOPY>>,
      <<POP>>,
      RevertWithData,
      <<PUSH1, 3, JUMP>> }

(* Code of contract B, the callee of the transaction, that calls C *)
CallerPrograms ==
    { CallSeq(CALL, 1000000, Addr.C, 1) \o <<STOP>>,
      CallSeq(STATICCALL, 1000000, Addr.C, 0) \o <<STOP>>,
      CallSeq(STATICCALL, 1000, Addr.C, 0) \o <<STOP>>,
      CallSeq(DELEGATECALL, 1000000, Addr.C, 0) \o <<STOP>> }

(* Code of contract B that calls nobody *)
SoloPrograms ==
    { SstoreInvalid,
      <<PUSH1, 0, PUSH1, 0, LOG0, STOP>>,
      <<PUSH1, 5, SELFDESTRUCT>>,
      CreateSeq(<<INVALID>>, 1),
      CreateSeq(<<>>, 1),
      <<PUSH1, 0, PUSH1, 0, PUSH1, 0, PUSH1, 0, CREATE2>>,
      <<PUSH0, PUSH0, POP, STOP>>,
      <<PUSH1, 0, PUSH1, 0, PUSH1, 0, RETURNDATACOPY, STOP>>,
      <<PUSH1, 1, PUSH1, 0, PUSH1, 0, RETURNDATACOPY, STOP>>,
      <<PUSH1, 0, PUSH1, 0, LOG0, INVALID>>,
      RevertWithData }

(* Init code of creation transactions *)
InitCodes ==
    { <<>>,
      <<STOP>>,
      <<PUSH1, 66, PUSH1, 0, MSTORE, PUSH1, 32, PUSH1, 0, RETURN>>,
      <<INVALID>>,
      <<PUSH1, 0, PUSH1, 0, REVERT>>,
      SstoreInvalid,
      <<PUSH2, 96, 0, PUSH1, 0, RETURN>>,
      <<PUSH2, 96, 1, PUSH1, 0, RETURN>> }

Accounts(senderNonce, senderBalance, codeB, codeC) ==
    (Addr.sender :> [EmptyAccount EXCEPT !.nonce = senderNonce, !.balance = senderBalance])
    @@ (Addr.B :> [EmptyAccount EXCEPT !.balance = 10, !.code = BytesOf(codeB)])
    @@ (Addr.C :> [EmptyAccount EXCEPT !.balance = 5, !.code = BytesOf(codeC)])
    @@ (Addr.D :> [EmptyAccount EXCEPT !.code = BytesOf(<<PUSH1, 9, PUSH1, 2, SSTORE>>)])

NewTransaction(to, value, data, gas, gas_price, nonce) ==
    [sender |-> Addr.sender, to |-> to, value |-> value, data |-> data,
     gas |-> gas, gas_price |-> gas_price, nonce |-> nonce]

InitCommon(accounts, t, coinbase) ==
    /\ heap = (1 :> accounts)
    /\ inputRef = 1
    /\ stateRef = 1
    /\ tx = t
    /\ env = [coinbase |-> coinbase]
    /\ phase = "start"
    /\ frames = <<>>
    /\ return_data = EmptyBytes
    /\ result = NoResult
    /\ lastFrame = NoFrame
    /\ lastCall = NoCall
    /\ txInfo = NoInfo
    /\ run = 1
    /\ firstOut = [state |-> <<>>, result |-> NoResult]
    /\ obj = NoObject

(* value transfers between accounts without code, valid and invalid *)
InitTransfer ==
    \E senderNonce \in 0..MaxNonce, nonce \in 0..MaxNonce,
       senderBalance \in {21000, 12000000}, gas \in {20999, 21000, 21071, 50000},
       gas_price \in 0..MaxGasPrice, value \in 0..MaxValue,
       data \in {<<>>, <<0, 7>>}, coinbase \in {Addr.coinbase, Addr.sender, Addr.eoa} :
        InitCommon(Accounts(senderNonce, senderBalance, <<>>, <<>>),
                   NewTransaction(Addr.eoa, value, BytesOf(data), gas, gas_price, nonce),
                   coinbase)

(* message calls to contract B *)
InitCall ==
    \E progs \in (CallerPrograms \X CalleePrograms) \cup (SoloPrograms \X {<<>>}),
       gas \in {30000, 200000}, gas_price \in 0..MaxGasPrice, value \in 0..MaxValue :
        InitCommon(Accounts(0, 12000000, progs[1], progs[2]),
                   NewTransaction(Addr.B, value, EmptyBytes, gas, gas_price, 0),
                   Addr.coinbase)

(* contract creations *)
InitCreation ==
    \E init \in InitCodes, extra \in {0, 20, 50000, 5200000},
       gas_price \in 0..MaxGasPrice, value \in 0..MaxValue :
        InitCommon(Accounts(0, 12000000, <<>>, <<>>),
                   NewTransaction(NoAddr, value, BytesOf(init),
                                  transaction_intrinsic_gas(BytesOf(init), TRUE) + extra,
                                  gas_price, 0),
                   Addr.coinbase)

(* Code of contract B: CREATE with an init code that returns 24576 or 24577
   zero bytes *)
DeployerPrograms ==
    { CreateSeq(<<PUSH2, 96, 0, PUSH1, 0, RETURN>>, 0) \o <<STOP>>,
      CreateSeq(<<PUSH2, 96, 1, PUSH1, 0, RETURN>>, 0) \o <<STOP>> }

(* message calls to contract B with the gas to deploy a large contract *)
InitDeploy ==
    \E prog \in DeployerPrograms, gas_price \in 0..MaxGasPrice :
        InitCommon(Accounts(0, 12000000, prog, <<>>),
                   NewTransaction(Addr.B, 0, EmptyBytes, 5400000, gas_price, 0),
                   Addr.coinbase)

(* Code of contract B: JUMP to d; positions 4 and 8 hold a JUMPDEST,
   positions 6 and 7 the bytes 0x5B as data of a PUSH2 *)
JumpProgram(d) ==
    <<PUSH1, d, JUMP, STOP, JUMPDEST, PUSH2, JUMPDEST, JUMPDEST, JUMPDEST, STOP>>

(* JUMPI to d on condition c; position 6 holds a JUMPDEST, position 8 the
   byte 0x5B as data of a PUSH1 *)
JumpiProgram(c, d) ==
    <<PUSH1, c, PUSH1, d, JUMPI, STOP, JUMPDEST, PUSH1, JUMPDEST, STOP>>

JumpPrograms ==
    {JumpProgram(d) : d \in {3, 4, 6, 7, 8, 10, 200}}
    \cup {JumpiProgram(c, d) : c \in {0, 1, 2}, d \in {5, 6, 8, 10, 200}}
    \cup {<<JUMP>>, <<PUSH1, 1, JUMPI>>}

(* message calls to a contract B that jumps *)
InitJump ==
    \E prog \in JumpPrograms :
        InitCommon(Accounts(0, 12000000, prog, <<>>),
                   NewTransaction(Addr.B, 0, EmptyBytes, 100000, 0, 0),
                   Addr.coinbase)

(* SSTORE(key, value) and SLOAD(key) as byte code *)
Sstore(key, value) == <<PUSH1, value, PUSH1, key, SSTORE>>
Sload(key) == <<PUSH1, key, SLOAD>>

(* Code of B and C: B stores, overwrites, clears and reads back slots on its
   own, or stores slot 1 and reads it back after a nested call of C *)
StoragePrograms ==
    { << Sstore(1, 7) \o Sload(1) \o Sstore(2, 3) \o Sload(1) \o Sstore(1, 9)
         \o Sload(1) \o Sstore(1, 0) \o Sload(1) \o Sload(2) \o <<STOP>>, <<>> >> }
    \cup { << Sstore(1, 7) \o CallSeq(opcode, 100000, Addr.C, 0) \o <<POP>> \o Sload(1)
              \o <<STOP>>, callee >> :
             opcode \in {CALL, CALLCODE, DELEGATECALL},
             callee \in { Sstore(1, 9) \o <<STOP>>, Sstore(2, 9) \o <<STOP>>,
                          <<PUSH1, 5, SELFDESTRUCT>> } }

(* message calls to a contract B that uses its storage *)
(* One nested call of each variant, to an existing or a missing account, with
   a value the caller has, has not, or zero; GAS records what the caller
   holds after the call *)
CallVariantPrograms ==
    { << CallSeq(opcode, hint, address, value) \o <<GAS, STOP>>, callee >> :
        opcode \in {CALL, CALLCODE, DELEGATECALL, STATICCALL},
        hint \in {0, 1000000}, address \in {Addr.C, Addr.eoa}, value \in {0, 1, 200},
        callee \in {<<>>, <<PUSH1, 7, PUSH1, 1, SSTORE, STOP>>} }

(* B sends 1 wei to C with all the gas it may forward; C burns what it gets *)
StipendPrograms ==
    { << CallSeq(CALL, 1000000, Addr.C, 1) \o <<STOP>>, <<INVALID>> >> }

InitCallVariants ==
    \E progs \in CallVariantPrograms \cup StipendPrograms, value \in 0..MaxValue :
        InitCommon(Accounts(0, 12000000, progs[1], progs[2]),
                   NewTransaction(Addr.B, value, EmptyBytes, 100000, 0, 0), Addr.coinbase)

(* The sender holds what the transaction costs up front and no more *)
InitPoorSender ==
    \E progs \in StipendPrograms, gas_price \in 0..MaxGasPrice :
        InitCommon(Accounts(0, 100000 * gas_price, progs[1], progs[2]),
                   NewTransaction(Addr.B, 0, EmptyBytes, 100000, gas_price, 0),
                   Addr.coinbase)

(* Code of contract B: a CREATE or CREATE2 with more value than B holds, two
   CREATEs in a row, a CREATE whose init code returns 32 bytes of code *)
CreatorPrograms ==
    { CreateSeq(<<INVALID>>, 200) \o <<GAS, STOP>>,
      <<PUSH1, 0, PUSH1, 33, PUSH1, 0, PUSH1, 200, CREATE2, GAS, STOP>>,
      CreateSeq(<<>>, 1) \o <<POP>> \o CreateSeq(<<>>, 0) \o <<STOP>>,
      CreateSeq(<<INVALID>>, 0) \o <<POP>> \o CreateSeq(<<STOP>>, 1) \o <<STOP>>,
      CreateSeq(<<PUSH1, 32, PUSH1, 0, RETURN>>, 1) \o <<STOP>> }

(* B creates, runs C's SELFDESTRUCT in its own context, creates again *)
RecreatePrograms ==
    { << CreateSeq(<<>>, 0) \o <<POP>> \o CallSeq(DELEGATECALL, 100000, Addr.C, 0)
         \o <<POP>> \o CreateSeq(<<>>, 0) \o <<STOP>>,
         <<PUSH1, 5, SELFDESTRUCT>> >> }

InitCreates ==
    \E progs \in (CreatorPrograms \X {<<>>}) \cup RecreatePrograms,
       gas \in {56000, 200000}, value \in 0..MaxValue :
        InitCommon(Accounts(0, 12000000, progs[1], progs[2]),
                   NewTransaction(Addr.B, value, EmptyBytes, gas, 0, 0), Addr.coinbase)

(* LOGn with these topics (first topic first) over memory [offset, offset + size) *)
RECURSIVE PushAll(_)
PushAll(values) ==
    IF values = <<>> THEN <<>> ELSE PushAll(Tail(values)) \o <<PUSH1, Head(values)>>
LogSeq(topics, offset, size) ==
    PushAll(topics) \o <<PUSH1, size, PUSH1, offset, LOG0 + Len(topics)>>

(* B logs, calls C, logs again; C logs and ends well or fails *)
LogPrograms ==
    { << LogSeq(<<5>>, 0, 0) \o CallSeq(opcode, 100000, Addr.C, 0) \o <<POP>>
         \o <<PUSH1, 9, PUSH1, 0, MSTORE8>> \o LogSeq(<<>>, 0, 2) \o <<STOP>>,
         LogSeq(<<1, 2>>, 0, 1) \o ending >> :
        opcode \in {CALL, DELEGATECALL, STATICCALL},
        ending \in {<<STOP>>, <<INVALID>>, <<PUSH1, 0, PUSH1, 0, REVERT>>} }

InitLogs ==
    \E progs \in LogPrograms :
        InitCommon(Accounts(0, 12000000, progs[1], progs[2]),
                   NewTransaction(Addr.B, 0, EmptyBytes, 200000, 0, 0), Addr.coinbase)

(* B destroys itself in favour of itself or of another account, or calls C
   which does so in its own or in B's context *)
SelfdestructPrograms ==
    { << <<PUSH1, recipient, SELFDESTRUCT>>, <<>> >> :
        recipient \in {Addr.B, Addr.C, Addr.eoa, Addr.sender, Addr.coinbase} }
    \cup { << CallSeq(opcode, 100000, Addr.C, 1) \o <<STOP>>,
              <<PUSH1, recipient, SELFDESTRUCT>> >> :
            opcode \in {CALL, DELEGATECALL}, recipient \in {Addr.B, Addr.C} }

InitSelfdestruct ==
    \E progs \in SelfdestructPrograms, value \in 0..MaxValue, gas_price \in 0..MaxGasPrice,
       coinbase \in {Addr.coinbase, Addr.B} :
        InitCommon(Accounts(0, 12000000, progs[1], progs[2]),
                   NewTransaction(Addr.B, value, EmptyBytes, 200000, gas_price, 0), coinbase)

(* B executes, on empty memory, a CALL whose return range is two words while
   C returns nothing or one word, a value-bearing CALL or a CREATE it cannot
   pay for, or a CREATE it can pay for; MSIZE and an MLOAD of the second word
   follow *)
ReturnOneWord == <<PUSH1, 32, PUSH1, 0, RETURN>>
MemoryPrograms ==
    { << <<PUSH1, 64, PUSH1, 0, PUSH1, 0, PUSH1, 0>> \o Push(value)
         \o <<PUSH1, Addr.C>> \o Push(100000) \o <<CALL>>
         \o <<MSIZE, PUSH1, 32, MLOAD, STOP>>, callee >> :
        value \in {0, 200}, callee \in {<<>>, ReturnOneWord} }
    \cup { << <<PUSH1, 33, PUSH1, 0>> \o Push(value) \o <<CREATE>>
              \o <<MSIZE, PUSH1, 32, MLOAD, STOP>>, <<>> >> :
            value \in {0, 200} }

InitMemoryRanges ==
    \E progs \in MemoryPrograms :
        InitCommon(Accounts(0, 12000000, progs[1], progs[2]),
                   NewTransaction(Addr.B, 0, EmptyBytes, 200000, 0, 0), Addr.coinbase)

InitReturnData ==
    \E progs \in ReturnDataPrograms :
        InitCommon(Accounts(0, 12000000, progs[1], progs[2]),
                   NewTransaction(Addr.B, 0, EmptyBytes, 400000, 0, 0), Addr.coinbase)

InitStorage ==
    \E progs \in StoragePrograms :
        InitCommon(Accounts(0, 12000000, progs[1], progs[2]),
                   NewTransaction(Addr.B, 0, EmptyBytes, 300000, 0, 0),
                   Addr.coinbase)

(* n repetitions of a byte sequence *)
Repeat(n, bytes) ==
    [i \in 1..(n * Len(bytes)) |-> bytes[((i - 1) % Len(bytes)) + 1]]

(* Code of contract B that fills the stack to MAX_DEPTH words and goes on *)
FullStackPrograms ==
    { Repeat(MAX_DEPTH + 1, <<PUSH0>>) }
    \cup { <<PUSH1, 1>> \o Repeat(MAX_DEPTH - 1, <<DUP1>>) \o tail :
             tail \in { <<SWAP1, POP, DUP1, DUP1>>, <<PUSH1, 7>>, <<PC>>,
                        <<SWAP16, DUP16>> } }

(* message calls to a contract B that fills its stack *)
InitFullStack ==
    \E prog \in FullStackPrograms :
        InitCommon(Accounts(0, 12000000, prog, <<>>),
                   NewTransaction(Addr.B, 0, EmptyBytes, 100000, 0, 0),
                   Addr.coinbase)

(* a sender account that has code which creates a contract, called by its
   own transaction *)
InitSenderWithCode ==
    \E gas_price \in 0..MaxGasPrice :
        InitCommon([Accounts(0, 12000000, <<>>, <<>>) EXCEPT
                       ![Addr.sender].code = BytesOf(CreateSeq(<<>>, 0) \o <<STOP>>)],
                   NewTransaction(Addr.sender, 0, EmptyBytes, 200000, gas_price, 0),
                   Addr.coinbase)

StarvedPrograms ==
    { <<PUSH0>>, <<PUSH1, 200, JUMP>>, <<PUSH1, 1, PUSH1, 200, JUMPI>> }

(* message calls that hand contract B a few units of gas *)
InitStarved ==
    \E prog \in StarvedPrograms, extra \in {0, 1, 2, 5, 12} :
        InitCommon(Accounts(0, 12000000, prog, <<>>),
                   NewTransaction(Addr.B, 0, EmptyBytes, G_TRANSACTION + extra, 1, 0),
                   Addr.coinbase)

(* Code of contract B for direct calls of execute: one nested call of each
   kind, a CREATE, a CREATE2, a call of itself, a loop *)
SelfCall == CallSeq(CALL, 1000000, Addr.B, 0) \o <<STOP>>
Loop == <<JUMPDEST, PUSH1, 0, JUMP>>
LoopIf == <<JUMPDEST, PUSH1, 1, PUSH1, 0, JUMPI>>
ExecutePrograms ==
    { << CallSeq(opcode, 1000000, Addr.C, 0) \o <<STOP>>, callee >> :
        opcode \in {CALL, CALLCODE, DELEGATECALL, STATICCALL},
        callee \in {<<>>, <<PUSH1, 0, PUSH1, 0, LOG0>>, SstoreInvalid} }
    \cup { << SelfCall, <<>> >>,
           << Loop, <<>> >>,
           << LoopIf, <<>> >>,
           << CallSeq(CALL, 1000000, Addr.C, 1) \o <<STOP>>, Loop >> }

(* Address operands: an account that exists, one that does not, and a word
   that is no address *)
AddressPrograms ==
    { << Push(address) \o <<opcode, STOP>>, <<STOP>> >> :
        address \in {Addr.C, Addr.eoa, AddressModulus},
        opcode \in {BALANCE, EXTCODEHASH, SELFDESTRUCT} }
    \cup { << CallSeq(opcode, 1000000, AddressModulus, 0) \o <<STOP>>, <<>> >> :
            opcode \in {CALL, STATICCALL} }

ExecuteCreatePrograms ==
    { << CreateSeq(<<>>, 1) \o <<STOP>>, <<>> >>,
      << <<PUSH1, 0, PUSH1, 0, PUSH1, 0, PUSH1, 0, CREATE2>>, <<>> >> }

MaxGas == 3000   \* the largest message.gas of a direct call that may loop

InitExecute ==
    /\ fork \in {"F0", "F1", "F2"}
    /\ \E progs \in ExecutePrograms \cup AddressPrograms \cup ExecuteCreatePrograms,
          gas \in {100, MaxGas, 100000},
          depth \in {0, MAX_CALL_DEPTH - 1, MAX_CALL_DEPTH, MAX_CALL_DEPTH + 1} :
          LET accounts == Accounts(0, 12000000, progs[1], progs[2])
              message == NewMessage(Addr.sender, Addr.B, 0, EmptyBytes, gas, depth,
                                    BytesOf(progs[1]), 0, FALSE, FALSE)
          IN /\ (gas > MaxGas) = (progs \in ExecuteCreatePrograms)
             /\ heap = (1 :> accounts)
             /\ inputRef = 1
             /\ stateRef = 1
             /\ tx = NewTransaction(Addr.B, 0, EmptyBytes, gas, 0, 0)
             /\ env = [coinbase |-> Addr.coinbase]
             /\ phase = "call"
             /\ frames = <<NewFrame(message, accounts)>>
             /\ return_data = EmptyBytes
             /\ result = NoResult
             /\ lastFrame = NoFrame
             /\ lastCall = NoCall
             /\ txInfo = NoInfo
             /\ run = 1
             /\ firstOut = [state |-> <<>>, result |-> NoResult]
             /\ obj = NoObject

Init ==
    /\ fork \in {"F0", "F1", "F2"}
    /\ \/ InitTransfer
       \/ InitCall
       \/ InitCreation
       \/ InitDeploy
       \/ InitStarved
       \/ InitJump
       \/ InitFullStack
       \/ InitSenderWithCode
       \/ InitStorage
       \/ InitReturnData
       \/ InitCallVariants
       \/ InitCreates
       \/ InitLogs
       \/ InitMemoryRanges
       \/ InitPoorSender
       \/ InitSelfdestruct

(* Stacks of n words, as n calls of push leave them *)
InitStack ==
    \E n \in {0, 1, 2, 17, MAX_DEPTH - 2, MAX_DEPTH - 1, MAX_DEPTH} :
        obj = [kind |-> "stack", stack |-> [i \in 1..n |-> i % 3], error |-> "none",
               out |-> 0, ops |-> 0, call |-> [name |-> "none", args |-> <<>>]]

(* Memories as a few calls leave them *)
InitMemory ==
    \E memory \in {EmptyBytes, store_word(EmptyBytes, 0, 5), store_byte(EmptyBytes, 40, 9)} :
        obj = [kind |-> "memory", memory |-> memory, error |-> "none", out |-> 0,
               ops |-> 0, call |-> [name |-> "none", args |-> <<>>], word |-> NoWord]

InitObjects ==
    /\ fork = "F0"
    /\ heap = (1 :> <<>>)
    /\ inputRef = 1
    /\ stateRef = 1
    /\ tx = NewTransaction(NoAddr, 0, EmptyBytes, 0, 0, 0)
    /\ env = [coinbase |-> Addr.coinbase]
    /\ phase = "object"
    /\ frames = <<>>
    /\ return_data = EmptyBytes
    /\ result = NoResult
    /\ lastFrame = NoFrame
    /\ lastCall = NoCall
    /\ txInfo = NoInfo
    /\ run = 1
    /\ firstOut = [state |-> <<>>, result |-> NoResult]
    /\ (InitStack \/ InitMemory)

Next ==
    \/ BeginRejected
    \/ BeginAccepted
    \/ StepOpcode
    \/ StepEnter
    \/ StepReturn
    \/ StepFinish
    \/ StepEscape

Spec == Init /\ [][Next]_vars

NextObjects ==
    \/ ObjPush
    \/ ObjPop
    \/ ObjPeek
    \/ ObjSet
    \/ ObjDup
    \/ ObjSwap
    \/ ObjLoad
    \/ ObjLoadWord
    \/ ObjStore
    \/ ObjStoreWord
    \/ ObjStoreByte
    \/ ObjCopyWithin

(* The transactions, and next to them Stack and Memory objects driven directly *)
SpecObjects == (Init \/ InitObjects) /\ [][Next \/ NextObjects]_vars

(* Interpreter.execute called directly *)
NextExecute ==
    \/ ExecuteRefused
    \/ ExecuteBegin
    \/ StepOpcode
    \/ StepEnter
    \/ StepReturn
    \/ ExecuteReturn
    \/ StepEscape

SpecExecute == InitExecute /\ [][NextExecute]_vars

(* The same, with the caller invoking state_transition a second time *)
SpecTwice == Init /\ [][Next \/ Reinvoke]_vars

-----------------------------------------------------------------------------
(* apply_block (frontier/fork.py): the transactions of a list run one after
   the other through state_transition.  obj holds the locals of apply_block:
   the list, the results so far, the number of transactions taken, and a
   record of the transaction before the current one.  phase "block":
   apply_block has been called; "applied": it has returned. *)

MaxBlock == 2    \* the longest list of transactions

BlockTransactions ==
    { NewTransaction(Addr.B, 1, EmptyBytes, 100000, 1, 0),
      NewTransaction(Addr.B, 1, EmptyBytes, 100000, 1, 1),
      NewTransaction(Addr.B, 0, EmptyBytes, 20000, 1, 0),
      NewTransaction(NoAddr, 0, EmptyBytes, 60000, 0, 0),
      NewTransaction(Addr.sender, 0, EmptyBytes, 100000, 0, 0) }

RECURSIVE Blocks(_)
Blocks(n) ==
    IF n = 0 THEN {<<>>}
    ELSE Blocks(n - 1)
         \cup {Append(b, t) : b \in {c \in Blocks(n - 1) : Len(c) = n - 1},
                              t \in BlockTransactions}

NoPrevious == [valid |-> FALSE]

InitBlock ==
    \E transactions \in Blocks(MaxBlock),
       codeB \in {<<>>, <<PUSH1, 7, PUSH1, 1, SSTORE>>, <<PUSH1, Addr.sender, SELFDESTRUCT>>,
                  CallSeq(CALL, 100000, Addr.sender, 1) \o <<STOP>>,
                  <<PUSH1, Addr.C, EXTCODEHASH>>},
       codeSender \in {<<>>, <<PUSH1, Addr.eoa, SELFDESTRUCT>>} :
        /\ fork = "F0"
        /\ heap = (1 :> [Accounts(0, 12000000, codeB, <<>>) EXCEPT
                            ![Addr.sender].code = BytesOf(codeSender)])
        /\ inputRef = 1
        /\ stateRef = 1
        /\ tx = NewTransaction(NoAddr, 0, EmptyBytes, 0, 0, 0)
        /\ env = [coinbase |-> Addr.coinbase]
        /\ phase = "block"
        /\ frames = <<>>
        /\ return_data = EmptyBytes
        /\ result = NoResult
        /\ lastFrame = NoFrame
        /\ lastCall = NoCall
        /\ txInfo = NoInfo
        /\ run = 1
        /\ firstOut = [state |-> <<>>, result |-> NoResult]
        /\ obj = [kind |-> "block", transactions |-> transactions, results |-> <<>>,
                  at |-> 0, previous |-> NoPrevious]

(* results.append(result), for the transaction that has just returned *)
BlockAfterTransaction ==
    IF phase = "done"
    THEN [obj EXCEPT !.results = Append(@, result),
                     !.previous = [valid |-> TRUE, tx |-> tx, input |-> heap[inputRef],
                                   state |-> State, result |-> result,
                                   accepted |-> txInfo.accepted]]
    ELSE obj

(* A loop that hands every transaction the State apply_block was called with *)
ApplyNextOnInput ==
    /\ obj.kind = "block"
    /\ phase \in {"block", "done"}
    /\ obj.at < Len(obj.transactions)
    /\ obj' = [BlockAfterTransaction EXCEPT !.at = @ + 1]
    /\ tx' = obj.transactions[obj.at + 1]
    /\ inputRef' = 1
    /\ phase' = "start"
    /\ UNCHANGED <<fork, heap, stateRef, env, frames, return_data, result, lastFrame,
                   lastCall, txInfo, run, firstOut>>

(* for tx in transactions: state, result = state_transition(state, tx, env),
   up to the call: the State of the call is the one the last call returned *)
ApplyNext ==
    /\ obj.kind = "block"
    /\ phase \in {"block", "done"}
    /\ obj.at < Len(obj.transactions)
    /\ obj' = [BlockAfterTransaction EXCEPT !.at = @ + 1]
    /\ tx' = obj.transactions[obj.at + 1]
    /\ inputRef' = stateRef
    /\ phase' = "start"
    /\ UNCHANGED <<fork, heap, stateRef, env, frames, return_data, result, lastFrame,
                   lastCall, txInfo, run, firstOut>>

(* return state, results *)
ApplyReturn ==
    /\ obj.kind = "block"
    /\ phase \in {"block", "done"}
    /\ obj.at = Len(obj.transactions)
    /\ obj' = BlockAfterTransaction
    /\ phase' = "applied"
    /\ UNCHANGED <<fork, heap, inputRef, stateRef, tx, env, frames, return_data, result,
                   lastFrame, lastCall, txInfo, run, firstOut>>

NextBlock == Next \/ ApplyNext \/ ApplyReturn

SpecBlock == InitBlock /\ [][NextBlock]_vars

-----------------------------------------------------------------------------
(* CustomMinimizer.minimize (spectre/phantom/minimizer.py).  Byte strings are
   sequences of bytes here; obj holds the arguments and the locals of
   minimize.  phase "minimize": minimize has been called; "loop": at the head
   of its while loop; "minimized": it has returned obj.out. *)

MaxLen == 4      \* the longest bytecode handed to minimize

RECURSIVE SeqsUpTo(_, _)
SeqsUpTo(S, n) ==
    IF n = 0 THEN {<<>>}
    ELSE SeqsUpTo(S, n - 1)
         \cup {Append(q, x) : q \in {r \in SeqsUpTo(S, n - 1) : Len(r) = n - 1}, x \in S}

(* The predicates self.test_fn ranges over: functions of the bytes alone *)
TestFns == {"never", "always", "has_push0", "long", "ordered", "odd"}
test_fn(name, code) ==
    IF name = "never" THEN FALSE
    ELSE IF name = "always" THEN TRUE
    ELSE IF name = "has_push0" THEN \E i \in 1..Len(code) : code[i] = PUSH0
    ELSE IF name = "long" THEN Len(code) >= 2
    ELSE IF name = "ordered"
         THEN \E i, j \in 1..Len(code) : i < j /\ code[i] = 1 /\ code[j] = 2
    ELSE Len(code) % 2 = 1

(* code[a:b] of Python, 0 <= a, 0 <= b *)
PySlice(code, a, b) == SubSeq(code, Min(a, Len(code)) + 1, Min(b, Len(code)))

(* current[:start] + current[end:] for chunk i of n *)
Candidate(current, n, i) ==
    LET chunk_size == Max(1, Len(current) \div n)
        start == i * chunk_size
        end == IF i < n - 1 THEN start + chunk_size ELSE Len(current)
    IN PySlice(current, 0, start) \o PySlice(current, end, Len(current))

(* A loop body that takes the first non-empty candidate, passing or not *)
IterationUntested(name, current, n) ==
    LET reducing == {i \in 0..(n - 1) : Len(Candidate(current, n, i)) > 0}
        first == CHOOSE i \in reducing : \A k \in reducing : i <= k
    IN IF reducing # {}
       THEN [current |-> Candidate(current, n, first), n |-> Max(2, n - 1),
             found_reduction |-> TRUE, break |-> FALSE]
       ELSE [current |-> current, n |-> IF n >= Len(current) THEN n ELSE Min(n * 2, Len(current)),
             found_reduction |-> FALSE, break |-> n >= Len(current)]

(* The body of the while loop after iterations += 1: the first chunk whose
   removal leaves a non-empty candidate that passes is removed; if there is
   none the granularity doubles, or the loop is left *)
Iteration(name, current, n) ==
    LET reducing == {i \in 0..(n - 1) :
                        /\ Len(Candidate(current, n, i)) > 0
                        /\ test_fn(name, Candidate(current, n, i))}
        first == CHOOSE i \in reducing : \A k \in reducing : i <= k
    IN IF reducing # {}
       THEN [current |-> Candidate(current, n, first), n |-> Max(2, n - 1),
             found_reduction |-> TRUE, break |-> FALSE]
       ELSE [current |-> current, n |-> IF n >= Len(current) THEN n ELSE Min(n * 2, Len(current)),
             found_reduction |-> FALSE, break |-> n >= Len(current)]

(* MinimizationResult.from_bytecodes, without the percentage *)
MinimizationResult(original, minimized, iterations) ==
    [valid |-> TRUE, original |-> original, minimized |-> minimized,
     original_size |-> Len(original), minimized_size |-> Len(minimized),
     iterations |-> iterations]

NoMinimization == [valid |-> FALSE]

InitMinimize ==
    \E bytecode \in SeqsUpTo({1, 2, PUSH0}, MaxLen), name \in TestFns,
       max_iterations \in {0, 1, 3, 1000} :
        /\ fork = "F0"
        /\ heap = (1 :> <<>>)
        /\ inputRef = 1
        /\ stateRef = 1
        /\ tx = NewTransaction(NoAddr, 0, EmptyBytes, 0, 0, 0)
        /\ env = [coinbase |-> Addr.coinbase]
        /\ phase = "minimize"
        /\ frames = <<>>
        /\ return_data = EmptyBytes
        /\ result = NoResult
        /\ lastFrame = NoFrame
        /\ lastCall = NoCall
        /\ txInfo = NoInfo
        /\ run = 1
        /\ firstOut = [state |-> <<>>, result |-> NoResult]
        /\ obj = [kind |-> "minimizer", test_fn |-> name, bytecode |-> bytecode,
                  max_iterations |-> max_iterations, n |-> 2, iterations |-> 0,
                  current |-> bytecode, found_reduction |-> FALSE,
                  out |-> NoMinimization]

(* minimize up to the head of the loop: a bytecode that does not pass is
   returned as it is *)
MinimizeBegin ==
    /\ phase = "minimize"
    /\ IF ~test_fn(obj.test_fn, obj.bytecode)
       THEN /\ obj' = [obj EXCEPT !.out = MinimizationResult(obj.bytecode, obj.bytecode, 0)]
            /\ phase' = "minimized"
       ELSE /\ obj' = obj
            /\ phase' = "loop"
    /\ UNCHANGED <<fork, heap, inputRef, stateRef, tx, env, frames, return_data, result,
                   lastFrame, lastCall, txInfo, run, firstOut>>

(* The loop condition and one pass through the loop, or the return *)
MinimizeLoop ==
    /\ phase = "loop"
    /\ IF Len(obj.current) > 1 /\ obj.iterations < obj.max_iterations
       THEN LET it == Iteration(obj.test_fn, obj.current, obj.n)
                after == [obj EXCEPT !.iterations = @ + 1, !.current = it.current,
                                     !.n = it.n, !.found_reduction = it.found_reduction]
            IN IF it.break
               THEN /\ obj' = [after EXCEPT !.out = MinimizationResult(obj.bytecode,
                                                         after.current, after.iterations)]
                    /\ phase' = "minimized"
               ELSE /\ obj' = after
                    /\ phase' = "loop"
       ELSE /\ obj' = [obj EXCEPT !.found_reduction = FALSE,
                                  !.out = MinimizationResult(obj.bytecode, obj.current,
                                                             obj.iterations)]
            /\ phase' = "minimized"
    /\ UNCHANGED <<fork, heap, inputRef, stateRef, tx, env, frames, return_data, result,
                   lastFrame, lastCall, txInfo, run, firstOut>>

NextMinimize == MinimizeBegin \/ MinimizeLoop

SpecMinimize == InitMinimize /\ [][NextMinimize]_vars

-----------------------------------------------------------------------------
(* Properties *)

(* Two States that no getter of State can tell apart *)
SameAccounts(s1, s2) ==
    \A a \in DOMAIN s1 \cup DOMAIN s2 : get_account(s1, a) = get_account(s2, a)

Done == phase = "done"
Accepted == txInfo.valid /\ txInfo.accepted
Rejected == txInfo.valid /\ ~txInfo.accepted

(* C1: after a frame that ends with success = false, at the root or nested,
   every account's nonce, balance, code and storage is what it was when the
   frame was entered. *)
C1_FailedFrameRestoresAccounts ==
    (lastFrame.valid /\ ~lastFrame.result.success)
        => SameAccounts(lastFrame.exit_state, lastFrame.entry_state)

(* C2: every result of state_transition has gas_used <= tx.gas. *)
C2_GasUsedWithinLimit ==
    Done => result.gas_used <= tx.gas

(* The validation failures of the specification: its intrinsic gas carries,
   in F2, the init code word cost. *)
FailsValidation ==
    LET sender_account == get_account(heap[inputRef], tx.sender)
    IN \/ sender_account.nonce # tx.nonce
       \/ tx.gas < IntrinsicGas(fork, tx)
       \/ sender_account.balance < tx.gas * tx.gas_price + tx.value
       \/ (fork = "F2" /\ IsCreate(tx) /\ tx.data.len > MAX_INITCODE_SIZE)

(* C3: a transaction that fails validation gets success = false, an error,
   gas_used = 0, and a State equal to the input State. *)
C3_InvalidTransactionLeavesState ==
    (Done /\ FailsValidation)
        => /\ ~result.success
           /\ result.error # NoError
           /\ result.gas_used = 0
           /\ SameAccounts(State, heap[inputRef])

(* C4: a CALL with value > 0 whose sub-frame fails pushes 0 and leaves the
   balances of the caller and of the callee as they were before the CALL. *)
C4_FailedCallUndoesTransfer ==
    (lastCall.valid /\ lastCall.call_type = "CALL" /\ lastCall.value > 0
     /\ ~lastCall.success)
        => /\ lastCall.pushed = 0
           /\ get_balance(lastCall.post_state, lastCall.caller)
                = get_balance(lastCall.pre_state, lastCall.caller)
           /\ get_balance(lastCall.post_state, lastCall.callee)
                = get_balance(lastCall.pre_state, lastCall.callee)

StaticActive ==
    phase = "exec" /\ \E i \in DOMAIN frames : frames[i].message.is_static

(* The innermost frame is about to execute one of the state-changing
   opcodes: SSTORE, LOGn, CREATE, CREATE2, SELFDESTRUCT, CALL with value > 0 *)
AtWritingOpcode ==
    /\ ~RanOffEnd(Top)
    /\ LET opcode == ByteAt(Top.message.code, Top.pc)
       IN IF opcode = CALL
          THEN Len(Top.stack) >= 7 /\ Peek(Top.stack, 2) > 0
          ELSE opcode \in {SSTORE, CREATE, CREATE2, SELFDESTRUCT} \cup (LOG0..LOG4)

AtCallWithValue == ~RanOffEnd(Top) /\ ByteAt(Top.message.code, Top.pc) = CALL

(* This step ends the innermost frame with one of `errors`; its caller gets
   0 pushed and keeps its storage *)
TopFailsWith(errors) ==
    /\ lastFrame'.valid
    /\ lastFrame'.message = Top.message
    /\ ~lastFrame'.result.success
    /\ lastFrame'.result.error \in errors
    /\ lastFrame'.result.logs = <<>>
    /\ Len(frames') = Len(frames) - 1
    /\ lastCall'.valid
    /\ lastCall'.pushed = 0
    /\ get_account(State', lastCall'.caller).storage = lastCall'.caller_storage_before

NoStaticLogs ==
    \A i \in DOMAIN frames : frames[i].message.is_static => frames[i].logs = <<>>

(* C5, as stated: while a static frame is active no account changes and no
   log is recorded; each state-changing opcode fails with a write-protection
   error, 0 is pushed to the frame's caller, whose storage is unchanged. *)
C5_StaticFrameWriteProtection ==
    [][StaticActive =>
        /\ SameAccounts(State', State)
        /\ NoStaticLogs'
        /\ (AtWritingOpcode => TopFailsWith({"WriteProtection"}))]_vars

(* C5, but for the error of a CALL with value > 0: it is charged its gas
   before the static check, so it fails out of gas when the gas left does
   not cover the cost of the call. *)
C5_StaticFrameFailsWrites ==
    [][StaticActive =>
        /\ SameAccounts(State', State)
        /\ NoStaticLogs'
        /\ (AtWritingOpcode =>
              TopFailsWith(IF AtCallWithValue THEN {"WriteProtection", "OutOfGas"}
                           ELSE {"WriteProtection"}))]_vars

C5_Witness ==
    /\ lastFrame.valid /\ lastFrame.message.is_static
    /\ lastFrame.result.error = "WriteProtection"
    /\ lastCall.valid /\ lastCall.call_type = "STATICCALL" /\ lastCall.pushed = 0

(* C6: state_transition never modifies the State object it is given, and a
   second invocation with the same objects returns a result and a State
   equal to those of the first. *)
C6_StateTransitionPure ==
    [][/\ heap'[inputRef] = heap[inputRef]
       /\ (run' = 2 /\ phase' = "done")
            => /\ result' = firstOut'.result
               /\ SameAccounts(State', firstOut'.state)]_vars

C6_Witness ==
    /\ run = 2 /\ Done /\ Accepted /\ result.success
    /\ ~SameAccounts(State, heap[inputRef])

(* Gas the execution consumed: what the root frame used of the gas handed
   to it, plus, for a creation, the deposit for the code stored *)
InnerGasUsed ==
    (txInfo.message.gas - lastFrame.result.gas_remaining)
    + (IF IsCreate(tx)
       THEN G_CODEDEPOSIT * get_code(State, txInfo.contract_address).len ELSE 0)

(* C7: a valid transaction whose execution succeeds uses the intrinsic gas,
   once, plus the gas of the execution, deposit included; a transfer with
   empty data to an account without code uses exactly 21000. *)
C7_GasUsedIsIntrinsicPlusInner ==
    (Done /\ Accepted /\ result.success)
        => /\ result.gas_used = IntrinsicGas(fork, tx) + InnerGasUsed
           /\ (~IsCreate(tx) /\ tx.data.len = 0 /\ txInfo.message.code.len = 0)
                => result.gas_used = G_TRANSACTION

Recipient == IF IsCreate(tx) THEN txInfo.contract_address ELSE tx.to

Refund == (tx.gas - result.gas_used) * tx.gas_price

(* C8, as stated: after a valid transaction the coinbase has gained
   gas_used * gas_price and the sender got (gas - gas_used) * gas_price
   back; after a successful one between distinct accounts the sender has
   lost gas_used * gas_price + value and the recipient gained value. *)
C8_FeesAndValueSettled ==
    (Done /\ Accepted)
        => /\ get_balance(State, env.coinbase)
                = get_balance(txInfo.input, env.coinbase)
                  + result.gas_used * tx.gas_price
           /\ tx.sender # env.coinbase
                => get_balance(State, tx.sender)
                     = get_balance(lastFrame.exit_state, tx.sender) + Refund
           /\ (result.success /\ tx.sender # env.coinbase /\ tx.sender # Recipient
               /\ Recipient # env.coinbase)
                => /\ get_balance(State, tx.sender)
                        = get_balance(txInfo.input, tx.sender)
                          - (result.gas_used * tx.gas_price + tx.value)
                   /\ get_balance(State, Recipient)
                        = get_balance(txInfo.input, Recipient) + tx.value

(* The executed code left the balance of account a as it found it *)
BalanceKept(a) ==
    get_balance(lastFrame.exit_state, a) = get_balance(lastFrame.entry_state, a)

(* C8, amended: the same, for a coinbase that is neither the sender nor the
   recipient and an execution that itself moves no balance of the sender,
   the recipient or the coinbase. *)
C8_FeesAndValueSettledUntouched ==
    (Done /\ Accepted /\ env.coinbase \notin {tx.sender, Recipient}
     /\ BalanceKept(tx.sender) /\ BalanceKept(Recipient) /\ BalanceKept(env.coinbase))
        => /\ get_balance(State, env.coinbase)
                = get_balance(txInfo.input, env.coinbase)
                  + result.gas_used * tx.gas_price
           /\ get_balance(State, tx.sender)
                = get_balance(lastFrame.exit_state, tx.sender) + Refund
           /\ (result.success /\ tx.sender # Recipient)
                => /\ get_balance(State, tx.sender)
                        = get_balance(txInfo.input, tx.sender)
                          - (result.gas_used * tx.gas_price + tx.value)
                   /\ get_balance(State, Recipient)
                        = get_balance(txInfo.input, Recipient) + tx.value

C8_Witness ==
    /\ Done /\ Accepted /\ result.success
    /\ env.coinbase \notin {tx.sender, Recipient} /\ tx.sender # Recipient
    /\ BalanceKept(tx.sender) /\ BalanceKept(Recipient) /\ BalanceKept(env.coinbase)
    /\ tx.value > 0 /\ tx.gas_price > 0 /\ result.gas_used < tx.gas
    /\ txInfo.message.code.len > 0

(* What the init code of a creation transaction ended with *)
InitSucceeded == lastFrame.result.success
DepositAffordable ==
    lastFrame.result.gas_remaining >= G_CODEDEPOSIT * lastFrame.result.return_data.len
CreationDeployed ==
    /\ result.success
    /\ result.created_address = txInfo.contract_address
    /\ get_code(State, txInfo.contract_address) = lastFrame.result.return_data
CreationFailed ==
    /\ ~result.success
    /\ result.gas_used = tx.gas
    /\ result.created_address = NoAddr
    /\ get_code(State, txInfo.contract_address).len = 0

(* C9, as stated: a valid creation whose init code succeeds with gas left
   for the deposit succeeds, with created_address set and the code stored;
   any other fails with gas_used = tx.gas, no created_address, no code. *)
C9_CreationOutcome ==
    (Done /\ Accepted /\ IsCreate(tx))
        => IF InitSucceeded /\ DepositAffordable THEN CreationDeployed
           ELSE CreationFailed

(* C9, amended: in F2 the creation succeeds only if, besides, the returned
   code is at most MAX_CODE_SIZE bytes long. *)
C9_CreationOutcomeSized ==
    (Done /\ Accepted /\ IsCreate(tx))
        => IF /\ InitSucceeded
              /\ DepositAffordable
              /\ (fork = "F2" => lastFrame.result.return_data.len <= MAX_CODE_SIZE)
           THEN CreationDeployed
           ELSE CreationFailed

C9_Witness ==
    /\ Done /\ Accepted /\ IsCreate(tx) /\ fork = "F2"
    /\ InitSucceeded /\ DepositAffordable
    /\ lastFrame.result.return_data.len > MAX_CODE_SIZE
    /\ CreationFailed

(* C10: in F2 a creation whose gas is at least the base intrinsic gas but
   below the intrinsic gas with the init code word cost is rejected with
   gas_used = 0 and no change of State, and no frame is handed negative gas. *)
C10_InitcodeGasValidated ==
    /\ (fork = "F2" /\ IsCreate(tx) /\ txInfo.valid
        /\ tx.gas >= transaction_intrinsic_gas(tx.data, TRUE)
        /\ tx.gas < IntrinsicGas(fork, tx))
        => /\ ~txInfo.accepted
           /\ Done => (result.gas_used = 0 /\ SameAccounts(State, txInfo.input))
    /\ \A i \in DOMAIN frames : frames[i].message.gas >= 0

(* C11: in F2 no account ever holds code longer than MAX_CODE_SIZE: a creation
   whose init code returns more fails and the new address stays without
   code, in a creation transaction and in CREATE alike. *)
C11_NoOversizeCodeInShanghai ==
    fork = "F2" => \A a \in DOMAIN State : get_code(State, a).len <= MAX_CODE_SIZE

Executing == phase = "exec" /\ frames # <<>>
AtOpcode(opcode) ==
    Executing /\ ~RanOffEnd(Top) /\ ByteAt(Top.message.code, Top.pc) = opcode

(* This step ends the innermost frame with `error`, all its gas consumed *)
TopEndsWithError(error) ==
    /\ Len(frames') = Len(frames) - 1
    /\ lastFrame'.valid
    /\ lastFrame'.message = Top.message
    /\ ~lastFrame'.result.success
    /\ lastFrame'.result.error = error
    /\ lastFrame'.result.gas_remaining = 0
    /\ lastFrame'.result.gas_used = Top.message.gas

(* This step leaves the innermost frame running, with these locals *)
TopContinuesWith(stack, gas_remaining, pc) ==
    /\ Len(frames') = Len(frames)
    /\ Below' = Below
    /\ Top'.stack = stack
    /\ Top'.gas_remaining = gas_remaining
    /\ Top'.pc = pc

(* C12: byte 0x5F reached as an instruction, in any frame: in F0 and F1 the
   frame fails with an invalid-opcode error whatever gas it has left and
   loses all its gas; in F2 one zero word is pushed, 2 gas is charged and
   pc advances by 1 (a frame with less than 2 gas left fails out of gas,
   one with a full stack fails with a stack overflow). *)
C12_Push0ByFork ==
    [][AtOpcode(PUSH0) =>
        IF fork # "F2" THEN TopEndsWithError("InvalidOpcode")
        ELSE IF Top.gas_remaining < G_PUSH0 THEN TopEndsWithError("OutOfGas")
        ELSE IF Len(Top.stack) >= MAX_DEPTH THEN TopEndsWithError("StackOverflow")
        ELSE /\ TopContinuesWith(Append(Top.stack, 0), Top.gas_remaining - G_PUSH0,
                                 Top.pc + 1)
             /\ State' = State]_vars

C12_Witness ==
    /\ Executing /\ fork = "F2" /\ Top.message.depth = 1
    /\ Top.pc = 1 /\ ByteAt(Top.message.code, 0) = PUSH0
    /\ Top.stack = <<0>> /\ Top.gas_remaining = Top.message.gas - G_PUSH0

(* Position d is reached by decoding the code from position i, instruction
   by instruction *)
RECURSIVE IsInstructionStart(_, _, _)
IsInstructionStart(code, i, d) ==
    IF i >= d THEN i = d
    ELSE LET opcode == ByteAt(code, i)
         IN IsInstructionStart(code,
                               IF PUSH1 <= opcode /\ opcode <= PUSH32
                               THEN i + 2 + (opcode - PUSH1) ELSE i + 1,
                               d)

(* d is a JUMPDEST byte of the code outside the data of every PUSH *)
ValidDestination(code, d) ==
    d < code.len /\ ByteAt(code, d) = JUMPDEST /\ IsInstructionStart(code, 0, d)

(* C13: a JUMP, or a JUMPI with a non-zero condition, that has its gas and
   its operands sets pc to the destination d if d is a JUMPDEST byte outside
   PUSH data, and fails the frame with an invalid-jump error for any other
   d; a JUMPI with condition 0 goes on at pc + 1 whatever d is. *)
C13_JumpOnlyToJumpdest ==
    [][/\ (AtOpcode(JUMP) /\ Top.gas_remaining >= G_MID /\ Len(Top.stack) >= 1) =>
            IF ValidDestination(Top.message.code, Peek(Top.stack, 0))
            THEN TopContinuesWith(Drop(Top.stack, 1), Top.gas_remaining - G_MID,
                                  Peek(Top.stack, 0))
            ELSE TopEndsWithError("InvalidJump")
       /\ (AtOpcode(JUMPI) /\ Top.gas_remaining >= G_HIGH /\ Len(Top.stack) >= 2) =>
            IF Peek(Top.stack, 1) = 0
            THEN TopContinuesWith(Drop(Top.stack, 2), Top.gas_remaining - G_HIGH,
                                  Top.pc + 1)
            ELSE IF ValidDestination(Top.message.code, Peek(Top.stack, 0))
            THEN TopContinuesWith(Drop(Top.stack, 2), Top.gas_remaining - G_HIGH,
                                  Peek(Top.stack, 0))
            ELSE TopEndsWithError("InvalidJump")]_vars

C13_Witness ==
    /\ lastFrame.valid
    /\ lastFrame.message.code = BytesOf(JumpProgram(7))
    /\ lastFrame.result.error = "InvalidJump"

StackInBounds(s) ==
    /\ Len(s) <= MAX_DEPTH
    /\ \A i \in 1..Len(s) : s[i] >= 0 /\ s[i] < WordModulus

(* C14: the stack of every frame, and a Stack object after any calls of
   push, pop, set, dup and swap, holds at most 1024 words, each of them in
   [0, 2^256) (here 2^30); a push or a dup (of a depth 1..16) at 1024 words
   is refused with a stack overflow and leaves the stack as it is, and a
   frame that executes a PUSHn or DUPn at 1024 words ends with that error. *)
C14_StackBounded ==
    /\ [](/\ \A i \in 1..Len(frames) : StackInBounds(frames[i].stack)
          /\ obj.kind = "stack" => StackInBounds(obj.stack))
    /\ [][/\ ( /\ obj.kind = "stack"
               /\ Len(obj.stack) = MAX_DEPTH
               /\ \/ obj'.call.name = "push"
                  \/ obj'.call.name = "dup" /\ obj'.call.args[1] \in 1..16 )
             => obj'.error = "StackOverflow" /\ obj'.stack = obj.stack
          /\ ( /\ Executing
               /\ ~RanOffEnd(Top)
               /\ ByteAt(Top.message.code, Top.pc) \in (PUSH1..PUSH32) \cup (DUP1..DUP16)
               /\ Top.gas_remaining >= G_VERYLOW
               /\ Len(Top.stack) = MAX_DEPTH )
             => TopEndsWithError("StackOverflow")]_vars

C14_Witness ==
    /\ obj.kind = "stack"
    /\ obj.ops = 3
    /\ obj.call.name = "dup"
    /\ obj.error = "StackOverflow"
    /\ Len(obj.stack) = MAX_DEPTH
    /\ obj.stack[MAX_DEPTH] = WordModulus - 1

(* C15: every invocation of the interpreter that returns success = true
   (through STOP, RETURN, SELFDESTRUCT or by running off the end of the
   code) reports gas_used + gas_remaining = message.gas. *)
C15_SuccessGasAccounting ==
    (lastFrame.valid /\ lastFrame.result.success) =>
        lastFrame.result.gas_used + lastFrame.result.gas_remaining = lastFrame.message.gas

C15_Witness ==
    /\ lastFrame.valid
    /\ lastFrame.result.success
    /\ lastFrame.depth = 1
    /\ lastFrame.result.return_data.len > 0
    /\ lastFrame.result.gas_used > 0
    /\ lastFrame.result.gas_remaining > 0

ErrorKinds ==
    {"OutOfGas", "StackUnderflow", "StackOverflow", "InvalidJump", "InvalidOpcode",
     "WriteProtection", "CallDepth", "ReturnDataOutOfBounds"}

(* A sub-frame returns at this step *)
SubFrameReturns ==
    Executing /\ Len(frames) >= 2 /\ Len(frames') = Len(frames) - 1

(* C16: a frame that ends through an error (out of gas, stack underflow or
   overflow, invalid jump, invalid opcode, write protection, call depth,
   return data out of bounds) returns success = false, gas_remaining = 0,
   gas_used = message.gas and no logs; the frame that called it goes on at
   the next instruction with 0 pushed and with the gas it had kept, nothing
   added. *)
C16_ErrorEndsFrame ==
    /\ []((lastFrame.valid /\ lastFrame.result.error \in ErrorKinds) =>
            /\ ~lastFrame.result.success
            /\ lastFrame.result.gas_remaining = 0
            /\ lastFrame.result.gas_used = lastFrame.message.gas
            /\ lastFrame.result.logs = <<>>)
    /\ [][(SubFrameReturns /\ lastFrame'.result.error \in ErrorKinds) =>
            LET caller == frames[Len(frames) - 1]
                after == frames'[Len(frames) - 1]
            IN /\ phase' = "exec"
               /\ lastFrame'.message = Top.message
               /\ after.message = caller.message
               /\ after.stack = Append(caller.stack, 0)
               /\ after.gas_remaining = caller.gas_remaining
               /\ after.pc = caller.pc + 1
               /\ after.memory = caller.memory]_vars

C16_Witness ==
    /\ Executing
    /\ Len(frames) = 1
    /\ lastFrame.valid
    /\ lastFrame.depth = 1
    /\ lastFrame.result.error = "OutOfGas"
    /\ lastFrame.message.gas > 0
    /\ lastCall.valid
    /\ lastCall.pushed = 0
    /\ Peek(Top.stack, 0) = 0
    /\ Top.gas_remaining > 0

(* C17: a frame ended by REVERT (with its operands on the stack and gas for
   the memory expansion) returns success = false, the size bytes of memory
   at offset as return data and, as gas_remaining, the gas left after the
   memory-expansion charge; a calling frame gets exactly that gas added to
   its own and 0 pushed. *)
C17_RevertKeepsGas ==
    [][( /\ AtOpcode(REVERT)
         /\ Len(Top.stack) >= 2
         /\ expansion_cost(Top.memory, Peek(Top.stack, 0), Peek(Top.stack, 1))
              <= Top.gas_remaining )
       => LET offset == Peek(Top.stack, 0)
              size == Peek(Top.stack, 1)
              left == Top.gas_remaining - expansion_cost(Top.memory, offset, size)
              res == lastFrame'.result
          IN /\ Len(frames') = Len(frames) - 1
             /\ lastFrame'.valid
             /\ lastFrame'.message = Top.message
             /\ ~res.success
             /\ res.gas_remaining = left
             /\ res.return_data.len = size
             /\ \A k \in 0..(size - 1) :
                   ByteAt(res.return_data, k) = ByteAt(Top.memory, offset + k)
             /\ Len(frames) >= 2 =>
                   LET caller == frames[Len(frames) - 1]
                       after == frames'[Len(frames) - 1]
                   IN /\ after.gas_remaining = caller.gas_remaining + left
                      /\ after.stack = Append(caller.stack, 0)
                      /\ after.pc = caller.pc + 1]_vars

C17_Witness ==
    /\ Executing
    /\ lastFrame.valid
    /\ lastFrame.depth = 1
    /\ lastFrame.message.code = BytesOf(RevertWithData)
    /\ ~lastFrame.result.success
    /\ lastFrame.result.return_data.len = 64
    /\ ByteAt(lastFrame.result.return_data, 31) = 255
    /\ lastFrame.result.gas_remaining > 0
    /\ lastCall.valid
    /\ lastCall.pushed = 0

SenderHasNoCode == get_code(heap[inputRef], tx.sender).len = 0

(* C18: after a transaction that passed validation and whose sender has no
   code, the sender's nonce in the returned State is tx.nonce + 1, whether
   the execution succeeded or failed. *)
C18_SenderNonceIncremented ==
    (Done /\ Accepted /\ SenderHasNoCode) =>
        get_account(State, tx.sender).nonce = tx.nonce + 1

C18_Witness ==
    /\ Done /\ Accepted /\ SenderHasNoCode
    /\ ~result.success
    /\ get_account(State, tx.sender).nonce = 1

(* the size argument of a Memory method call *)
AccessSize(call) ==
    CASE call.name = "load" -> call.args[2]
      [] call.name = "store" -> Len(call.args[2])
      [] call.name = "copy_within" -> call.args[3]
      [] call.name = "store_byte" -> 1
      [] OTHER -> 32

(* the bytes a Memory method call writes *)
Written(call) ==
    IF call.name \in {"load", "load_word"} THEN {}
    ELSE IF call.name = "copy_within"
    THEN call.args[1]..(call.args[1] + call.args[3] - 1)
    ELSE call.args[1]..(call.args[1] + AccessSize(call) - 1)

(* C19: the length of a memory (of every frame, and of a Memory object after
   any calls of load, load_word, store, store_word, store_byte and
   copy_within) is a multiple of 32 and never decreases; the bytes an
   expansion adds read zero unless the call wrote them; an access of size 0
   leaves the length as it is, whatever the offset. *)
C19_MemoryGrowsByWords ==
    /\ [](/\ \A i \in 1..Len(frames) : frames[i].memory.len % 32 = 0
          /\ obj.kind = "memory" => obj.memory.len % 32 = 0)
    /\ [][/\ \A i \in 1..Min(Len(frames), Len(frames')) :
                frames'[i].memory.len >= frames[i].memory.len
          /\ (obj.kind = "memory" /\ obj'.kind = "memory") =>
                /\ obj'.memory.len >= obj.memory.len
                /\ \A k \in DOMAIN obj'.memory.nz :
                      k >= obj.memory.len => k \in Written(obj'.call)
                /\ \A k \in DOMAIN obj'.memory.nz : k < obj'.memory.len
                /\ AccessSize(obj'.call) = 0 => obj'.memory.len = obj.memory.len]_vars

C19_Witness ==
    /\ obj.kind = "memory"
    /\ obj.ops = 3
    /\ obj.call.name = "copy_within"
    /\ obj.call.args = <<70, 0, 32>>
    /\ obj.memory.len = 128
    /\ ByteAt(obj.memory, 101) = 5

(* C20: load_word(o) after store_word(o, v) returns v mod 2^256 (here 2^30)
   when the calls made in between did not write into [o, o + 32); store_word
   leaves the bytes outside [o, o + 32) that existed before it as they
   were. *)
C20_StoreWordLoadWord ==
    [][(obj.kind = "memory" /\ obj'.kind = "memory") =>
         /\ ( /\ obj.word.valid
              /\ obj'.call.name = "load_word"
              /\ obj'.call.args[1] = obj.word.offset )
            => obj'.out = obj.word.value % WordModulus
         /\ obj'.call.name = "store_word" =>
              \A k \in DOMAIN obj.memory.nz \cup DOMAIN obj'.memory.nz :
                 (k < obj.memory.len /\ k \notin Written(obj'.call)) =>
                     ByteAt(obj'.memory, k) = ByteAt(obj.memory, k)]_vars

C20_Witness ==
    /\ obj.kind = "memory"
    /\ obj.call.name = "load_word"
    /\ obj.call.args = <<31>>
    /\ obj.word.valid
    /\ obj.word.since = 2
    /\ obj.word.offset = 31
    /\ obj.word.value = WordModulus + 5
    /\ obj.out = 5
    /\ ByteAt(obj.memory, 70) = 255

(* The step is an SSTORE to slot key of address a / a SELFDESTRUCT of a *)
SstoreTo(a, key) ==
    /\ AtOpcode(SSTORE)
    /\ Top.message.target = a
    /\ Len(Top.stack) >= 1
    /\ Peek(Top.stack, 0) = key
SelfdestructOf(a) == AtOpcode(SELFDESTRUCT) /\ Top.message.target = a

StorageKeys(st, a) == DOMAIN get_account(st, a).storage

(* An SSTORE that has its operands and its gas in a non-static frame goes on
   at pc + 1, makes the slot read as the value (a slot written with 0 is
   absent) and changes nothing else of any account *)
SstoreWrites ==
    ( /\ AtOpcode(SSTORE)
      /\ ~Top.message.is_static
      /\ Len(Top.stack) >= 2
      /\ sstore_cost(get_storage(State, Top.message.target, Peek(Top.stack, 0)),
                     Peek(Top.stack, 1)) <= Top.gas_remaining )
    => LET a == Top.message.target
           key == Peek(Top.stack, 0)
           value == Peek(Top.stack, 1)
           cost == sstore_cost(get_storage(State, a, key), value)
       IN /\ TopContinuesWith(Drop(Top.stack, 2), Top.gas_remaining - cost, Top.pc + 1)
          /\ get_storage(State', a, key) = value
          /\ value = 0 => key \notin StorageKeys(State', a)
          /\ \A k \in (StorageKeys(State, a) \cup StorageKeys(State', a)) \ {key} :
                get_storage(State', a, k) = get_storage(State, a, k)
          /\ \A b \in DOMAIN State \cup DOMAIN State' :
                get_account(State', b) =
                    [get_account(State, b) EXCEPT
                        !.storage = IF b = a THEN get_account(State', a).storage ELSE @]

(* An SLOAD that has its operand and its gas pushes what the slot holds *)
SloadReads ==
    (AtOpcode(SLOAD) /\ Len(Top.stack) >= 1 /\ Top.gas_remaining >= G_SLOAD)
    => /\ TopContinuesWith(Append(Drop(Top.stack, 1),
                                  get_storage(State, Top.message.target,
                                              Peek(Top.stack, 0))),
                           Top.gas_remaining - G_SLOAD, Top.pc + 1)
       /\ State' = State

(* The slots of the target of every frame that is still active after the
   step are what they were, but for the slot an SSTORE of this step writes
   (and, with the flag, but for a SELFDESTRUCT of that target) *)
SlotsKept(selfdestruct_excepted) ==
    Executing =>
        \A i \in 1..Min(Len(frames), Len(frames')) :
            LET a == frames[i].message.target
            IN \A key \in StorageKeys(State, a) \cup StorageKeys(State', a) :
                  \/ SstoreTo(a, key)
                  \/ selfdestruct_excepted /\ SelfdestructOf(a)
                  \/ get_storage(State', a, key) = get_storage(State, a, key)

(* C21 as stated: after a successful SSTORE(key, value) in a non-static
   frame with target a, SLOAD(key) in that frame returns value until the
   next SSTORE to that slot (0 for a cleared slot, which is absent like a
   slot never written); the SSTORE changes no other slot and no other
   address. *)
C21_SloadReturnsStored ==
    [][SstoreWrites /\ SloadReads /\ SlotsKept(FALSE)]_vars

(* C21 amended: ... until the next SSTORE to that slot or a SELFDESTRUCT
   executed by a nested frame with the same target a, which resets the
   account and with it every slot. *)
C21_SloadReturnsStoredUnlessDestroyed ==
    [][SstoreWrites /\ SloadReads /\ SlotsKept(TRUE)]_vars

C21_Witness ==
    /\ Executing
    /\ Len(frames) = 1
    /\ ByteAt(Top.message.code, Top.pc - 1) = SLOAD
    /\ Top.stack = <<7>>
    /\ lastCall.valid
    /\ lastCall.call_type = "DELEGATECALL"
    /\ lastCall.success
    /\ get_storage(State, Addr.B, 2) = 9

(* C22: a Stack operation that fails leaves the stack as it was and reports
   its error: push at 1024 words overflow, pop on the empty stack underflow,
   peek(d) and set(d, v) with d >= length underflow, dup(n) with n > length
   underflow and at 1024 words overflow, swap(n) with n + 1 > length
   underflow (n in 1..16).  A dup(n) that succeeds appends the element at
   depth n - 1, a swap(n) that succeeds exchanges the top with the element
   at depth n and leaves the others in place. *)
C22_StackOperationErrors ==
    [][(obj.kind = "stack" /\ obj'.kind = "stack" /\ obj'.ops = obj.ops + 1) =>
         LET s == obj.stack
             t == obj'.stack
             len == Len(s)
             name == obj'.call.name
             arg == obj'.call.args
             error == obj'.error
         IN /\ error # "none" => t = s
            /\ name = "push" => (error = "StackOverflow" <=> len = MAX_DEPTH)
            /\ name = "push" => error \in {"none", "StackOverflow"}
            /\ name = "pop" => error = (IF len = 0 THEN "StackUnderflow" ELSE "none")
            /\ name \in {"peek", "set"} =>
                  error = (IF arg[1] >= len THEN "StackUnderflow" ELSE "none")
            /\ (name = "peek" /\ error = "none") =>
                  t = s /\ obj'.out = s[len - arg[1]]
            /\ (name = "dup" /\ arg[1] \in 1..16) =>
                  /\ error = (IF arg[1] > len THEN "StackUnderflow"
                              ELSE IF len = MAX_DEPTH THEN "StackOverflow" ELSE "none")
                  /\ error = "none" => t = Append(s, s[len - (arg[1] - 1)])
            /\ (name = "swap" /\ arg[1] \in 1..16) =>
                  /\ error = (IF arg[1] + 1 > len THEN "StackUnderflow" ELSE "none")
                  /\ error = "none" =>
                        /\ Len(t) = len
                        /\ t[len] = s[len - arg[1]]
                        /\ t[len - arg[1]] = s[len]
                        /\ \A i \in 1..len :
                              i \notin {len, len - arg[1]} => t[i] = s[i]]_vars

C22_Witness ==
    /\ obj.kind = "stack"
    /\ obj.ops = 3
    /\ obj.call.name = "set"
    /\ obj.call.args[1] = 1
    /\ obj.error = "StackUnderflow"
    /\ obj.stack = <<WordModulus - 1>>

(* A frame starts to run: the root frame of a transaction or a sub-frame *)
FrameEntered ==
    /\ phase' = "exec"
    /\ frames' # <<>>
    /\ phase = "start" \/ (Executing /\ Len(frames') = Len(frames) + 1)

(* Within a frame the buffer is the return data of the last nested call *)
BufferFollowsNestedCalls ==
    /\ SubFrameReturns => return_data' = lastFrame'.result.return_data
    /\ (Executing /\ Len(frames') = Len(frames) /\ Below' = Below) =>
          return_data' = return_data
    /\ (AtOpcode(RETURNDATASIZE) /\ Top.gas_remaining >= G_BASE
        /\ Len(Top.stack) < MAX_DEPTH) =>
          TopContinuesWith(Append(Top.stack, return_data.len),
                           Top.gas_remaining - G_BASE, Top.pc + 1)

(* C23: the last-return-data buffer belongs to one interpreter invocation:
   every frame (root frame, CALL and CREATE sub-frames) starts with an empty
   buffer, and within a frame the buffer is the return data of the frame's
   most recent nested call, whether that call succeeded or failed. *)
C23_ReturnDataPrivate ==
    [][(FrameEntered => return_data' = EmptyBytes) /\ BufferFollowsNestedCalls]_vars

(* What holds of C23: the buffer within a frame *)
C23_BufferFollowsNestedCalls == [][BufferFollowsNestedCalls]_vars

(* The operands of the call opcode the innermost frame is about to execute *)
TakesValue(opcode) == opcode \in {CALL, CALLCODE}
CallArity(opcode) == IF TakesValue(opcode) THEN 7 ELSE 6
HasCallOperands(opcode) == AtOpcode(opcode) /\ Len(Top.stack) >= CallArity(opcode)
GasHint == Peek(Top.stack, 0)
PoppedAddress == Peek(Top.stack, 1)
PoppedValue == Peek(Top.stack, 2)
CallMemoryCost(opcode) ==
    LET k == CallArity(opcode) - 6
    IN Max(expansion_cost(Top.memory, Peek(Top.stack, 2 + k), Peek(Top.stack, 3 + k)),
           expansion_cost(Top.memory, Peek(Top.stack, 4 + k), Peek(Top.stack, 5 + k)))

(* A call with a value the executing contract does not have is turned down:
   0 is pushed, only call cost and memory expansion are paid, no sub-frame,
   no balance moves *)
RejectedForBalance(opcode) ==
    LET charge == call_cost(PoppedValue, account_exists(State, PoppedAddress))
                  + CallMemoryCost(opcode)
    IN ( /\ HasCallOperands(opcode)
         /\ ~Top.message.is_static
         /\ get_balance(State, Top.message.target) < PoppedValue
         /\ charge <= Top.gas_remaining )
       => /\ TopContinuesWith(Append(Drop(Top.stack, 7), 0),
                              Top.gas_remaining - charge, Top.pc + 1)
          /\ State' = State

(* C24: CALL and CALLCODE alike, when the executing contract's balance is
   below the value: 0 is pushed, no sub-frame is invoked, no forwarded gas is
   deducted (only call cost and memory expansion), no balance changes, and
   execution continues at the next instruction. *)
C24_InsufficientBalanceCall ==
    [][RejectedForBalance(CALL) /\ RejectedForBalance(CALLCODE)]_vars

(* What holds of C24: the CALL opcode *)
C24_InsufficientBalanceCallOnly == [][RejectedForBalance(CALL)]_vars

(* The value _handle_call works with, and the gas the caller has left after
   paying call cost and memory expansion *)
HandledValue(opcode) ==
    IF TakesValue(opcode) THEN PoppedValue
    ELSE IF opcode = DELEGATECALL THEN Top.message.value ELSE 0
GasAfterCharge(opcode) ==
    Top.gas_remaining
    - (call_cost(HandledValue(opcode), account_exists(State, PoppedAddress))
       + CallMemoryCost(opcode))
EntersSubFrame == Executing /\ Len(frames') = Len(frames) + 1
Caller == frames[Len(frames) - 1]

(* The sub-frame gets min(hint, g - g/64) plus the stipend of a call with
   value; the caller pays min(hint, g - g/64) *)
ForwardedGas(opcode, stipend_charged) ==
    (HasCallOperands(opcode) /\ EntersSubFrame) =>
        LET g == GasAfterCharge(opcode)
            forwarded == Min(GasHint, g - (g \div 64))
            stipend == IF TakesValue(opcode) /\ PoppedValue > 0 THEN G_CALLSTIPEND ELSE 0
        IN /\ Top'.message.gas = forwarded + stipend
           /\ Caller'.gas_remaining =
                 g - forwarded - (IF stipend_charged THEN stipend ELSE 0)

UnusedGasReturned ==
    (SubFrameReturns /\ Caller.wait.kind = "call") =>
        Top'.gas_remaining = Caller.gas_remaining + lastFrame'.result.gas_remaining

(* C25: with g the caller's gas after call cost and memory expansion, the
   sub-frame of every nested call receives min(gas hint, g - floor(g / 64)),
   plus 2300 when the call carries a non-zero value (CALL and CALLCODE); the
   caller is debited min(...) only, the stipend is not charged to it; the gas
   the sub-frame leaves is added back to the caller after the return. *)
C25_ForwardedGas ==
    [][/\ \A opcode \in {CALL, CALLCODE, DELEGATECALL, STATICCALL} :
             ForwardedGas(opcode, FALSE)
       /\ UnusedGasReturned]_vars

(* What holds of C25: calls without value; a CALL with value forwards the
   stipend and debits it *)
C25_ForwardedGasWithoutValue ==
    [][/\ \A opcode \in {CALL, CALLCODE} :
             (HasCallOperands(opcode) /\ PoppedValue = 0) => ForwardedGas(opcode, FALSE)
       /\ \A opcode \in {DELEGATECALL, STATICCALL} : ForwardedGas(opcode, FALSE)
       /\ ForwardedGas(CALL, TRUE)
       /\ UnusedGasReturned]_vars

(* The Message of the sub-frame a call opcode enters *)
SubFrameMessage(opcode, staticcall_value) ==
    (HasCallOperands(opcode) /\ EntersSubFrame) =>
        LET self == Top.message
            sub == Top'.message
        IN /\ sub.target = (IF opcode \in {CALL, STATICCALL} THEN PoppedAddress
                            ELSE self.target)
           /\ sub.code_address = PoppedAddress
           /\ sub.caller = (IF opcode = DELEGATECALL THEN self.caller ELSE self.target)
           /\ sub.value = (IF TakesValue(opcode) THEN PoppedValue
                           ELSE IF opcode = DELEGATECALL THEN self.value
                           ELSE staticcall_value)
           /\ sub.is_static = (self.is_static \/ opcode = STATICCALL)
           /\ sub.code = get_code(State, PoppedAddress)
           /\ sub.depth = self.depth + 1
           /\ ~sub.is_create

(* C26: the Message of the sub-frame, per variant.  CALL: target and code
   address the popped address, caller self.target, value popped, is_static
   inherited.  CALLCODE: target self.target, code address popped, caller
   self.target, value popped.  DELEGATECALL: target self.target, code address
   popped, caller self.caller, value self.value.  STATICCALL: target and code
   address popped, caller self.target, value 0, is_static true.  The code run
   is that of the popped address, the depth is the caller's plus 1. *)
C26_SubFrameMessage ==
    [][\A opcode \in {CALL, CALLCODE, DELEGATECALL, STATICCALL} :
          SubFrameMessage(opcode, 0)]_vars

(* What holds of C26: the table with the value of a STATICCALL sub-frame
   being the value of the executing frame *)
C26_SubFrameMessageAsCoded ==
    [][\A opcode \in {CALL, CALLCODE, DELEGATECALL, STATICCALL} :
          SubFrameMessage(opcode, Top.message.value)]_vars

(* What a call opcode without value operand takes from the frame before it
   forwards gas: G_CALL, memory expansion and `surcharge` *)
ChargedBeforeForwarding(opcode, surcharge) ==
    LET charge == G_CALL + CallMemoryCost(opcode) + surcharge
    IN (HasCallOperands(opcode) /\ Top.gas_remaining >= charge) =>
          /\ EntersSubFrame
          /\ Caller'.gas_remaining + Top'.message.gas = Top.gas_remaining - charge

(* C27: before forwarding, DELEGATECALL and STATICCALL are charged G_CALL (40)
   plus memory expansion, the call cost of a call with value 0: never the
   9000 of a value transfer nor the 25000 of a new account, whatever the
   value of the executing frame and whether the called account exists. *)
C27_NoValueSurcharge ==
    [][ChargedBeforeForwarding(DELEGATECALL, 0)
       /\ ChargedBeforeForwarding(STATICCALL, 0)]_vars

(* What holds of C27: STATICCALL; DELEGATECALL pays the call cost of the
   executing frame's value *)
C27_SurchargeOfFrameValue ==
    [][(HasCallOperands(DELEGATECALL) =>
          ChargedBeforeForwarding(DELEGATECALL,
              call_cost(Top.message.value, account_exists(State, PoppedAddress)) - G_CALL))
       /\ ChargedBeforeForwarding(STATICCALL, 0)]_vars

(* A CREATE or CREATE2 with a value the executing contract does not have:
   0 is pushed and the accounts stay as they are *)
CreateArity(opcode) == IF opcode = CREATE2 THEN 4 ELSE 3
CreateCharge(opcode) ==
    G_CREATE + expansion_cost(Top.memory, Peek(Top.stack, 1), Peek(Top.stack, 2))
    + (IF opcode = CREATE2 THEN copy_cost(Peek(Top.stack, 2)) ELSE 0)
CreateRejectedForBalance(opcode) ==
    ( /\ AtOpcode(opcode)
      /\ ~Top.message.is_static
      /\ Len(Top.stack) >= CreateArity(opcode)
      /\ get_balance(State, Top.message.target) < Peek(Top.stack, 0)
      /\ CreateCharge(opcode) <= Top.gas_remaining )
    => /\ TopContinuesWith(Append(Drop(Top.stack, CreateArity(opcode)), 0),
                           Top.gas_remaining - CreateCharge(opcode), Top.pc + 1)
       /\ State' = State

(* C28: CREATE or CREATE2 when the executing contract's balance is below the
   value: 0 is pushed and nothing is created; the creator's nonce is not
   incremented, no balance changes, no sub-frame is invoked, and execution
   continues at the next instruction having paid the CREATE charge (for
   CREATE2 with the hashing cost) and memory expansion only. *)
C28_InsufficientBalanceCreate ==
    [][CreateRejectedForBalance(CREATE) /\ CreateRejectedForBalance(CREATE2)]_vars

C28_Witness ==
    /\ AtOpcode(GAS)
    /\ Len(frames) = 1
    /\ ByteAt(Top.message.code, Top.pc - 1) = CREATE2
    /\ Top.stack = <<0>>
    /\ Top.gas_remaining = Top.message.gas - 12 - (G_CREATE + 6 + 6)
    /\ get_account(State, Addr.B).nonce = 0
    /\ get_balance(State, Addr.B) = 11

(* The init code of a CREATE ends well, with less gas left than the deposit
   of the code it returns *)
DepositUnpaid ==
    /\ SubFrameReturns
    /\ Caller.wait.kind = "create"
    /\ lastFrame'.result.success
    /\ lastFrame'.result.gas_remaining
          < G_CODEDEPOSIT * lastFrame'.result.return_data.len

NothingDeployed ==
    DepositUnpaid =>
        /\ Top'.stack = Append(Caller.stack, 0)
        /\ Top'.pc = Caller.pc + 1
        /\ get_code(State', Caller.wait.new_address) = EmptyBytes

CreationRolledBack ==
    DepositUnpaid =>
        LET creator == Caller.message.target
            before == Caller.wait.pre_state
        IN /\ get_account(State', creator).nonce = get_account(before, creator).nonce
           /\ get_balance(State', creator) = get_balance(before, creator)
           /\ get_balance(State', Caller.wait.new_address)
                 = get_balance(before, Caller.wait.new_address)

(* C29: when the init code of a CREATE or CREATE2 terminates successfully
   but the sub-frame's remaining gas is below 200 * |runtime code|, the
   creation is a reverting failure: 0 is pushed, no code is stored, and the
   creator's nonce increment and the value transfer are rolled back. *)
C29_DepositFailureReverts == [][NothingDeployed /\ CreationRolledBack]_vars

(* What holds of C29: 0 pushed, no code stored *)
C29_DepositFailureDeploysNothing == [][NothingDeployed]_vars

(* This step is a creation by account a: a CREATE that enters its sub-frame,
   or the start of a creation transaction of sender a *)
CreateEnters == AtOpcode(CREATE) /\ EntersSubFrame
CreationBegins == phase = "start" /\ phase' = "exec" /\ IsCreate(tx)
CreationBy(a) ==
    \/ CreateEnters /\ Top.message.target = a
    \/ CreationBegins /\ tx.sender = a

(* The address comes from the creator's nonce as it is before the creation,
   and the creation adds exactly 1 to that nonce *)
CreateDerivesAddress ==
    /\ ( /\ AtOpcode(CREATE)
         /\ ~Top.message.is_static
         /\ Len(Top.stack) >= 3
         /\ CreateCharge(CREATE) <= Top.gas_remaining
         /\ get_balance(State, Top.message.target) >= Peek(Top.stack, 0) )
       => CreateEnters
    /\ CreateEnters =>
          LET creator == Top.message.target
              n == get_account(State, creator).nonce
          IN /\ Top'.message.is_create
             /\ Top'.message.target = create_address(creator, n)
             /\ get_account(State', creator).nonce = n + 1
    /\ CreationBegins =>
          LET n == get_account(heap[inputRef], tx.sender).nonce
          IN /\ frames'[1].message.is_create
             /\ frames'[1].message.target = create_address(tx.sender, n)
             /\ txInfo'.contract_address = create_address(tx.sender, n)
             /\ get_account(State', tx.sender).nonce = n + 1

(* Between the creations of an account nothing moves its nonce (with the
   flag: nothing but a SELFDESTRUCT run with that account as target) *)
NonceKeptBetweenCreations(selfdestruct_excepted) ==
    Executing =>
        \A a \in DOMAIN State \cup DOMAIN State' :
            (~CreationBy(a) /\ ~(selfdestruct_excepted /\ SelfdestructOf(a))) =>
                get_account(State', a).nonce = get_account(State, a).nonce

(* C30: the address of a contract created by the CREATE opcode or by a
   creation transaction is derived from the creator and the creator's nonce
   before the increment; each such creation (with sufficient balance)
   increments the creator's nonce by exactly 1; two successive creations by
   the same creator therefore use the nonces n and n + 1 and target different
   addresses. *)
C30_CreationNonces ==
    [][CreateDerivesAddress /\ NonceKeptBetweenCreations(FALSE)]_vars

(* C30 amended: the same, with successive creations using n and n + 1 as
   long as no SELFDESTRUCT with the creator as target runs between them. *)
C30_CreationNoncesUnlessDestroyed ==
    [][CreateDerivesAddress /\ NonceKeptBetweenCreations(TRUE)]_vars

C30_Witness ==
    /\ Executing
    /\ Len(frames) = 2
    /\ Top.message.is_create
    /\ Top.message.caller = Addr.B
    /\ Top.message.target = create_address(Addr.B, 1)
    /\ get_account(State, Addr.B).nonce = 2
    /\ lastFrame.valid
    /\ lastFrame.message.is_create
    /\ lastFrame.message.target = create_address(Addr.B, 0)

(* The gas of the innermost frame once its CALL-family or CREATE opcode has
   been charged *)
GasBeforeForwarding ==
    LET opcode == ByteAt(Top.message.code, Top.pc)
    IN IF opcode = CREATE THEN Top.gas_remaining - CreateCharge(CREATE)
       ELSE GasAfterCharge(opcode)

(* A frame has just been refused for its depth *)
RefusedForDepth ==
    /\ lastFrame' # lastFrame
    /\ lastFrame'.valid
    /\ lastFrame'.depth > MAX_CALL_DEPTH

(* C31: every sub-frame of a CALL-family or CREATE-family opcode has its
   parent's depth + 1; no opcode is executed in a frame deeper than 1024:
   such a frame fails at once with a call-depth error, gas_used = the gas
   forwarded to it, gas_remaining = 0, and its parent sees 0 pushed. *)
C31_CallDepth ==
    /\ [](Executing => \A i \in 1..Len(frames) : frames[i].message.depth <= MAX_CALL_DEPTH)
    /\ [][/\ EntersSubFrame => Top'.message.depth = Top.message.depth + 1
          /\ RefusedForDepth =>
                /\ ~lastFrame'.result.success
                /\ lastFrame'.result.error = "CallDepth"
                /\ lastFrame'.result.gas_used = lastFrame'.message.gas
                /\ lastFrame'.result.gas_remaining = 0
                /\ lastFrame'.result.logs = <<>>
                /\ lastFrame'.exit_state = lastFrame'.entry_state
                /\ Executing =>
                      /\ lastFrame'.depth = Top.message.depth + 1
                      /\ Len(frames') = Len(frames)
                      /\ Below' = Below
                      /\ Top'.pc = Top.pc + 1
                      /\ Len(Top'.stack) >= 1
                      /\ Peek(Top'.stack, 0) = 0
                      /\ Top'.gas_remaining = GasBeforeForwarding - lastFrame'.message.gas]_vars

C31_Witness ==
    /\ Executing
    /\ Len(frames) = 1
    /\ Top.message.depth = MAX_CALL_DEPTH
    /\ Top.stack = <<0>>
    /\ lastFrame.valid
    /\ lastFrame.depth = MAX_CALL_DEPTH + 1
    /\ lastFrame.result.error = "CallDepth"
    /\ lastFrame.message.gas > 0
    /\ lastFrame.result.gas_used = lastFrame.message.gas

(* The Log a LOGn of the innermost frame emits *)
EmittedLog(num_topics) ==
    [address |-> Top.message.target,
     topics |-> [i \in 1..num_topics |-> Peek(Top.stack, 1 + i)],
     data |-> mem_load(Top.memory, Peek(Top.stack, 0), Peek(Top.stack, 1))]

LogAppends ==
    \A num_topics \in 0..4 :
        ( /\ AtOpcode(LOG0 + num_topics)
          /\ ~Top.message.is_static
          /\ Len(Top.stack) >= 2 + num_topics
          /\ expansion_cost(Top.memory, Peek(Top.stack, 0), Peek(Top.stack, 1))
             + log_cost(Peek(Top.stack, 1), num_topics) <= Top.gas_remaining )
        => /\ Len(frames') = Len(frames)
           /\ Top'.pc = Top.pc + 1
           /\ Top'.logs = Append(Top.logs, EmittedLog(num_topics))

(* No other opcode that leaves the frame running touches its logs *)
LogsKept ==
    ( /\ Executing
      /\ Len(frames') = Len(frames)
      /\ ~RanOffEnd(Top)
      /\ ByteAt(Top.message.code, Top.pc) \notin LOG0..LOG4 )
    => Top'.logs = Top.logs

(* The result of a frame that ends well carries the frame's logs *)
ResultCarriesLogs ==
    ( /\ Executing
      /\ Len(frames') = Len(frames) - 1
      /\ phase' # "raised"
      /\ lastFrame'.result.success )
    => lastFrame'.result.logs = Top.logs

(* After a nested call the caller's logs are its own, followed (with the
   flag) by those of the sub-frame if it ended well *)
LogsAfterCall(merged) ==
    (SubFrameReturns /\ Caller.wait.kind = "call") =>
        Top'.logs = Caller.logs
                    \o (IF merged /\ lastFrame'.result.success
                        THEN lastFrame'.result.logs ELSE <<>>)

(* C32: the logs of a successful frame's result are exactly the LOGn
   executions of that invocation in execution order, each with the emitting
   frame's target as address, its topics in pop order and the data read from
   memory; the logs of nested calls that returned successfully are included
   at the point of the call, those of nested calls that failed are not. *)
C32_LogsInExecutionOrder ==
    [][LogAppends /\ LogsKept /\ ResultCarriesLogs /\ LogsAfterCall(TRUE)]_vars

(* What holds of C32: the frame's own logs; those of nested calls are dropped *)
C32_OwnLogsInExecutionOrder ==
    [][LogAppends /\ LogsKept /\ ResultCarriesLogs /\ LogsAfterCall(FALSE)]_vars

(* The gas of a frame, or of a result, lies between 0 and the gas given *)
GasWithin(gas_remaining, message) == 0 <= gas_remaining /\ gas_remaining <= message.gas

FrameGasWithin(f) == GasWithin(f.gas_remaining, f.message)

ResultGasWithin(record) ==
    /\ GasWithin(record.result.gas_remaining, record.message)
    /\ GasWithin(record.result.gas_used, record.message)

(* C33: in every frame, at every step, gas_remaining is between 0 and
   message.gas inclusive, and every result has 0 <= gas_remaining <=
   message.gas and 0 <= gas_used <= message.gas. *)
C33_GasWithinBounds ==
    /\ (Executing => \A i \in 1..Len(frames) : FrameGasWithin(frames[i]))
    /\ (lastFrame.valid => ResultGasWithin(lastFrame))

(* What holds of C33: no frame has more gas than it was given, nor has the
   result of a frame that was given 0 or more *)
C33_GasNeverAboveGiven ==
    /\ (Executing => \A i \in 1..Len(frames) :
            frames[i].gas_remaining <= frames[i].message.gas)
    /\ (lastFrame.valid /\ lastFrame.message.gas >= 0 =>
            /\ lastFrame.result.gas_remaining <= lastFrame.message.gas
            /\ lastFrame.result.gas_used >= 0)

(* The opcode at which the innermost frame stands takes an address from this
   depth of the stack, and the word there is no address *)
AddressOperandTooWide ==
    \E depth \in 0..1 :
        /\ Len(Top.stack) > depth
        /\ Peek(Top.stack, depth) >= AddressModulus
        /\ ByteAt(Top.message.code, Top.pc)
             \in (IF depth = 0 THEN {BALANCE, EXTCODEHASH, SELFDESTRUCT}
                  ELSE {CALL, CALLCODE, DELEGATECALL, STATICCALL})

(* C34: Interpreter.execute is total: for every bytecode, message and state
   it returns an ExecutionResult; every abnormal condition, CREATE2,
   EXTCODEHASH of an existing account and address operands of 2^160 or more
   included, surfaces as a normal result or as success = false with an error,
   never as an exception that escapes execute. *)
C34_ExecuteTotal ==
    /\ phase \in {"call", "exec", "returned"}
    /\ (phase = "returned" => lastFrame.valid /\ result = lastFrame.result)

(* What holds of C34: an exception escapes execute only from CREATE2, from
   EXTCODEHASH and from an address operand that is too wide *)
C34_EscapesOnlyFromThree ==
    [][(Executing /\ phase' = "raised") =>
          \/ AtOpcode(CREATE2)
          \/ AtOpcode(EXTCODEHASH)
          \/ AddressOperandTooWide]_vars

(* execute runs to its end once called: each iteration of its loop, each
   call of self.execute and each return is taken when it is possible *)
SpecExecuteFair == SpecExecute /\ WF_vars(NextExecute)

(* The gas of all the active frames together *)
RECURSIVE TotalGas(_)
TotalGas(fs) ==
    IF fs = <<>> THEN 0 ELSE Head(fs).gas_remaining + TotalGas(Tail(fs))

(* An instruction that does not end its frame is paid for by the frame, also
   when it opens a sub-frame: the gas the sub-frame gets is the caller's *)
InstructionCharged ==
    /\ (Executing /\ Executing' /\ Len(frames') = Len(frames))
         => Top'.gas_remaining < Top.gas_remaining
    /\ EntersSubFrame
         => /\ Top'.gas_remaining = Top'.message.gas
            /\ Caller'.gas_remaining + Top'.message.gas < Top.gas_remaining
    /\ (Executing /\ Executing' /\ Len(frames') >= Len(frames))
         => TotalGas(frames') < TotalGas(frames)

(* The end of a frame gives its caller no gas that was not there before *)
FrameEndKeepsTotal ==
    (Executing /\ Executing' /\ Len(frames') < Len(frames))
        => TotalGas(frames') <= TotalGas(frames)

ExecuteEnded == phase \in {"returned", "raised"}

(* C35: every interpreter invocation with a finite message.gas eventually
   terminates, loops built from JUMP / JUMPI and self-recursive calls
   included: every instruction that does not end the frame charges at least
   1 gas to the frame, the gas given to a sub-frame is taken from its parent,
   and so the total gas of the active frames strictly decreases with every
   such instruction and never grows when a frame ends. *)
C35_ExecuteTerminates ==
    /\ [][InstructionCharged /\ FrameEndKeepsTotal]_vars
    /\ <>ExecuteEnded

(* A loop that ran until its gas was gone; a self-recursive call that came
   back *)
C35_Witness ==
    /\ phase = "returned"
    /\ lastFrame.message.code \in {BytesOf(Loop), BytesOf(LoopIf)}
    /\ lastFrame.message.gas = MaxGas
    /\ lastFrame.result.error = "OutOfGas"

(* The sum of the balances of the accounts in S *)
RECURSIVE SumBalances(_, _)
SumBalances(st, S) ==
    IF S = {} THEN 0
    ELSE LET a == CHOOSE x \in S : TRUE
         IN st[a].balance + SumBalances(st, S \ {a})

TotalBalance(st) == SumBalances(st, DOMAIN st)

(* C36: state_transition conserves value: the sum of the balances of all
   accounts in the returned State equals the sum in the input State (the gas
   pre-charge, the refund, the coinbase payment, the transaction value, CALL
   and CREATE transfers and SELFDESTRUCT, also one whose recipient is the
   executing contract itself, only move balance between accounts). *)
C36_ValueConserved ==
    phase = "done" => TotalBalance(State) = TotalBalance(heap[inputRef])

(* What the step of the innermost frame destroys: the balance of a contract
   that runs SELFDESTRUCT with itself as recipient *)
Burned ==
    IF /\ AtOpcode(SELFDESTRUCT)
       /\ ~Top.message.is_static
       /\ Top.gas_remaining >= G_SELFDESTRUCT
       /\ Len(Top.stack) >= 1
       /\ Peek(Top.stack, 0) = Top.message.target
    THEN get_balance(State, Top.message.target)
    ELSE 0

(* The gas the sender has paid for and not yet got back or seen paid out *)
Prepaid == tx.gas * tx.gas_price

(* C36 amended: a rejected transaction leaves the sum as it is; an accepted
   one takes the pre-charge out of it and, at its end, puts it back in as
   refund and coinbase payment; in between every step keeps the sum, except
   a SELFDESTRUCT whose recipient is the executing contract itself, which
   destroys that contract's balance. *)
C36_ValueConservedButSelfDestruct ==
    [][ /\ (phase = "start" /\ phase' = "done")
            => TotalBalance(State') = TotalBalance(heap[inputRef])
        /\ (phase = "start" /\ phase' = "exec")
            => TotalBalance(State') = TotalBalance(heap[inputRef]) - Prepaid
        /\ (Executing /\ phase' = "exec")
            => TotalBalance(State') = TotalBalance(State) - Burned
        /\ (Executing /\ phase' = "done")
            => TotalBalance(State') = TotalBalance(State) - Burned + Prepaid ]_vars

(* B, holding 11 wei, has destroyed itself in favour of C and the sum is
   what it was *)
C36_Witness ==
    /\ phase = "done"
    /\ result.success
    /\ tx.gas_price = 1
    /\ get_balance(heap[inputRef], Addr.B) = 10
    /\ tx.value = 1
    /\ get_account(State, Addr.B) = EmptyAccount
    /\ get_balance(State, Addr.C) = 16
    /\ TotalBalance(State) = TotalBalance(heap[inputRef])

NonNegativeBalances(st) == \A a \in DOMAIN st : st[a].balance >= 0

(* C37: if every balance of the input State is non-negative, so is every
   balance of the State state_transition returns: validation, the gas refund
   and the balance checks before CALL and CREATE transfers never let an
   account go below zero. *)
C37_BalancesNonNegative ==
    (phase = "done" /\ NonNegativeBalances(heap[inputRef]))
        => NonNegativeBalances(State)

(* What holds of C37: the balances stay non-negative in every transaction
   that uses no more gas than it was given *)
C37_BalancesNonNegativeWithinGas ==
    (phase = "done" /\ NonNegativeBalances(heap[inputRef]) /\ result.gas_used <= tx.gas)
        => NonNegativeBalances(State)

(* The words a range of memory reaches up to, and the words a frame has *)
RequiredWords(offset, size) == IF size = 0 THEN 0 ELSE word_size(offset + size)
MemoryWords(f) == word_size(f.memory.len)

(* The words the opcode at which the innermost frame stands is charged for:
   every range its handler passes to expansion_cost. Only meaningful when
   the operands are on the stack. *)
ChargedWords(with_return_range) ==
    LET opcode == ByteAt(Top.message.code, Top.pc)
        s == Top.stack
        k == IF TakesValue(opcode) THEN 1 ELSE 0
    IN IF opcode \in {MLOAD, MSTORE} THEN RequiredWords(Peek(s, 0), 32)
       ELSE IF opcode = MSTORE8 THEN RequiredWords(Peek(s, 0), 1)
       ELSE IF opcode \in LOG0..LOG4 THEN RequiredWords(Peek(s, 0), Peek(s, 1))
       ELSE IF opcode = RETURNDATACOPY THEN RequiredWords(Peek(s, 0), Peek(s, 2))
       ELSE IF opcode \in {CREATE, CREATE2} THEN RequiredWords(Peek(s, 1), Peek(s, 2))
       ELSE IF opcode \in {CALL, CALLCODE, DELEGATECALL, STATICCALL}
            THEN Max(RequiredWords(Peek(s, 2 + k), Peek(s, 3 + k)),
                     IF with_return_range
                     THEN RequiredWords(Peek(s, 4 + k), Peek(s, 5 + k)) ELSE 0)
       ELSE 0

(* The innermost frame executes an instruction and goes on, or waits for the
   sub-frame the instruction opens: the frame afterwards *)
InstructionDone == Executing /\ ~RanOffEnd(Top) /\ phase' = "exec" /\ Len(frames') >= Len(frames)
SameFrameAfter == frames'[Len(frames)]

(* The opcode turned down for a value its contract does not hold *)
TurnedDownForBalance ==
    LET opcode == ByteAt(Top.message.code, Top.pc)
    IN /\ opcode \in {CALL, CREATE, CREATE2}
       /\ get_balance(State, Top.message.target)
            < Peek(Top.stack, IF opcode = CALL THEN 2 ELSE 0)

(* With the flags: every charged range is in memory afterwards. Without
   them: but for the return range of a call and for the ranges of a CALL or
   CREATE that is turned down. *)
MemoryFollowsCharge(with_return_range, with_turned_down) ==
    /\ InstructionDone =>
          MemoryWords(SameFrameAfter)
            = Max(MemoryWords(Top),
                  IF ~with_turned_down /\ TurnedDownForBalance THEN 0
                  ELSE ChargedWords(with_return_range))
    /\ (SubFrameReturns /\ phase' = "exec" /\ Caller.wait.kind = "call") =>
          MemoryWords(Top')
            >= (IF with_return_range
                THEN RequiredWords(Caller.wait.ret_offset, Caller.wait.ret_size)
                ELSE MemoryWords(Caller))

(* C38: memory-expansion gas is charged exactly once per word: the memory
   of a frame is always as many words long as the frame has been charged
   for, i.e. every opcode that is charged for expanding to r words (the
   return-data range of a call and the init-code range of a CREATE rejected
   for insufficient balance included) leaves the memory at least r words
   long, and memory grows by nothing that was not charged. *)
C38_MemoryChargedOnce == [][MemoryFollowsCharge(TRUE, TRUE)]_vars

(* What holds of C38: the same but for the return range of a call and the
   ranges of a CALL or CREATE turned down for insufficient balance *)
C38_MemoryChargedOnceButCalls == [][MemoryFollowsCharge(FALSE, FALSE)]_vars

InBlock == obj.kind = "block"

(* apply_block takes the transactions in list order, each on the State the
   one before returned (the first on the State apply_block was called with),
   and appends each result when its transaction returns *)
ThreadsState ==
    /\ (InBlock /\ phase' = "start" /\ phase # "start")
         => /\ obj'.at = obj.at + 1
            /\ tx' = obj.transactions[obj'.at]
            /\ heap'[inputRef'] = State
    /\ (InBlock /\ phase = "done" /\ phase' # "done")
         => /\ obj'.results = Append(obj.results, result)
            /\ State' = State
    /\ (InBlock /\ phase \in {"start", "exec"})
         => /\ inputRef' = inputRef
            /\ heap'[inputRef] = heap[inputRef]
            /\ tx' = tx
            /\ obj' = obj

ResultsInOrder ==
    /\ (InBlock /\ phase \in {"start", "exec", "done"}) => Len(obj.results) = obj.at - 1
    /\ (InBlock /\ phase = "applied")
         => /\ Len(obj.results) = Len(obj.transactions)
            /\ (obj.previous.valid =>
                  /\ obj.results[Len(obj.results)] = obj.previous.result
                  /\ State = obj.previous.state)
            /\ (~obj.previous.valid => obj.transactions = <<>> /\ stateRef = inputRef)

(* The transaction that has just returned is the one before it over again,
   and its sender had no code *)
Replayed ==
    /\ InBlock
    /\ phase = "done"
    /\ obj.previous.valid
    /\ obj.previous.tx = tx
    /\ get_code(obj.previous.input, tx.sender) = EmptyBytes

NoReplay ==
    Replayed =>
        /\ ~(obj.previous.accepted /\ txInfo.accepted)
        /\ (~txInfo.accepted => SameAccounts(State, heap[inputRef]))
        /\ (~obj.previous.accepted
              => SameAccounts(obj.previous.state, obj.previous.input))

(* C39: apply_block threads the State through its transactions in list
   order (transaction i runs on the State returned for transaction i-1 and
   yields result i), and a transaction cannot be replayed: if the same
   transaction from a code-less sender appears twice in a row, at most one of
   the two occurrences is accepted, and the rejected occurrence leaves the
   State unchanged. *)
C39_BlockThreadsState ==
    /\ [][ThreadsState]_vars
    /\ [](ResultsInOrder /\ NoReplay)

(* A block of the same transaction twice has returned: the first occurrence
   was accepted, the second rejected for its nonce *)
C39_Witness ==
    /\ InBlock
    /\ phase = "applied"
    /\ Len(obj.transactions) = 2
    /\ obj.transactions[1] = obj.transactions[2]
    /\ get_code(heap[1], Addr.sender) = EmptyBytes
    /\ obj.results[1].success
    /\ obj.results[2].error = "Invalid nonce"
    /\ get_account(State, Addr.sender).nonce = 1

(* sub is what deleting bytes from code leaves, the order kept *)
RECURSIVE IsSubsequence(_, _)
IsSubsequence(sub, code) ==
    IF sub = <<>> THEN TRUE
    ELSE IF code = <<>> THEN FALSE
    ELSE IF Head(sub) = Head(code) THEN IsSubsequence(Tail(sub), Tail(code))
    ELSE IsSubsequence(sub, Tail(code))

Minimizing == obj.kind = "minimizer"

(* The loop runs at most max_iterations times and the predicate holds of
   the current candidate throughout *)
LoopInvariant ==
    (Minimizing /\ phase \in {"loop", "minimized"} /\ test_fn(obj.test_fn, obj.bytecode))
        => /\ obj.iterations <= obj.max_iterations
           /\ test_fn(obj.test_fn, obj.current)
           /\ IsSubsequence(obj.current, obj.bytecode)

(* What minimize returns; with the flag the minimized bytes are non-empty
   whatever the bytecode, without it when the bytecode is *)
Returned(always_non_empty) ==
    (Minimizing /\ phase = "minimized") =>
        /\ obj.out.original = obj.bytecode
        /\ obj.out.iterations <= obj.max_iterations
        /\ IF ~test_fn(obj.test_fn, obj.bytecode)
           THEN obj.out.minimized = obj.bytecode /\ obj.out.iterations = 0
           ELSE /\ test_fn(obj.test_fn, obj.out.minimized)
                /\ (always_non_empty \/ obj.bytecode # <<>>) => obj.out.minimized # <<>>
                /\ IsSubsequence(obj.out.minimized, obj.bytecode)
                /\ obj.out.minimized_size <= obj.out.original_size

(* A pass that reports a reduction leaves a shorter candidate *)
ReductionShortens ==
    (Minimizing /\ phase = "loop" /\ obj'.iterations = obj.iterations + 1
     /\ obj'.found_reduction)
        => Len(obj'.current) < Len(obj.current)

(* C40: CustomMinimizer.minimize(b) terminates within max_iterations loop
   iterations and keeps the predicate as a loop invariant: if test_fn(b) is
   false it returns b unchanged with iterations = 0; otherwise the minimized
   bytes satisfy test_fn, are non-empty, are obtained from b by deleting
   bytes only (order preserved), so that len(minimized) <= len(b), and every
   iteration that reports a reduction strictly shortens the candidate. *)
C40_MinimizeKeepsPredicate ==
    /\ [](LoopInvariant /\ Returned(TRUE))
    /\ [][ReductionShortens]_vars

(* C40 amended: the same, the minimized bytes being non-empty whenever b is
   non-empty (an empty b that passes test_fn is returned as it is). *)
C40_MinimizeKeepsPredicateNonEmptyInput ==
    /\ [](LoopInvariant /\ Returned(FALSE))
    /\ [][ReductionShortens]_vars

(* A bytecode of four bytes has been cut down to the one byte that passes,
   in more than one pass *)
C40_Witness ==
    /\ Minimizing
    /\ phase = "minimized"
    /\ obj.test_fn = "has_push0"
    /\ Len(obj.bytecode) = MaxLen
    /\ obj.out.minimized = <<PUSH0>>
    /\ obj.out.iterations > 1
    /\ obj.out.iterations < obj.max_iterations

====
